---- MODULE Spec2Model ----
(***************************************************************************)
(* Model of the orchestration core: the TaskPlanner (task_planner.py) and  *)
(* the AutonomousEngine's executor (autonomous_engine.py).                 *)
(*                                                                         *)
(* Python values are modelled as follows.                                  *)
(*   Optional[X]   a sequence of length <= 1: <<>> is None, <<v>> is v     *)
(*   dict          the planner's task dict is a sequence of Task records   *)
(*                 in insertion order (the iteration order of a dict)      *)
(*   str           a TLA+ string; where the code looks inside a string     *)
(*                 (ordering, substring) the string's characters are used  *)
(***************************************************************************)
EXTENDS Integers, Sequences, FiniteSets, TLC

VARIABLES
    tasks,          \* TaskPlanner.tasks
    task_counter,   \* TaskPlanner.task_counter
    clock,          \* the wall clock read by _get_timestamp
    last,           \* the last planner call made by the client, with its result
    calls,          \* number of client calls made so far
    pc,             \* where build_application / _execute_development_plan stands
    plan,           \* plan["tasks"] of the running (or last) execution
    idx,            \* position of the loop `for task_id in tasks` (1-based)
    success,        \* what _execute_task returned for the current task
    execResult,     \* what _execute_development_plan returned, once it has
    result,         \* what build_application returned, once it has
    log,            \* what the executor did in this run, in order
    builds,         \* number of build_application calls so far
    progress_callbacks, \* AutonomousEngine.progress_callbacks: what each observer does when called
    code_context,   \* MemoryManager.code_context: the tracked files, in insertion order
    conversation_history, \* MemoryManager.conversation_history
    project_state,        \* MemoryManager.project_state
    learning_memory,      \* MemoryManager.learning_memory
    semantic_index,       \* MemoryManager.semantic_index, in insertion order of its keys
    code_dependencies,    \* MemoryManager.code_dependencies
    performance_metrics,  \* MemoryManager.performance_metrics
    error_patterns,       \* MemoryManager.error_patterns
    success_patterns,     \* MemoryManager.success_patterns
    memory_file           \* ./memory/<project_name>/memory.json on disk

plannerVars == <<tasks, task_counter, clock>>
clientVars == <<last, calls>>
memoryVars == <<conversation_history, project_state, learning_memory, semantic_index,
                code_dependencies, performance_metrics, error_patterns,
                success_patterns, memory_file>>
engineVars == <<pc, plan, idx, success, execResult, result, log, builds,
                progress_callbacks, code_context, memoryVars>>
vars == <<tasks, task_counter, clock, last, calls,
          pc, plan, idx, success, execResult, result, log, builds,
          progress_callbacks, code_context, memoryVars>>

----------------------------------------------------------------------------
(* Bounds of the model *)

MaxCalls == 5       \* client calls to the planner in one behaviour
MaxCreate == 1      \* direct create_task calls in one behaviour
MaxTasks == 9       \* ids the planner hands out in one behaviour of the client
MaxId == 2          \* the client names the ids task_0000 .. task_<MaxId>
MaxBuilds == 2      \* build_application calls in one behaviour of the engine
MaxRetries == 4     \* largest max_retries a retried operation is wrapped with
MaxCallbacks == 2   \* observers registered with add_progress_callback
MaxStoreCalls == 5  \* calls to the store in one behaviour that saves and loads
MaxConversations == 2 \* entries of the conversation history
MaxArtifacts == 2   \* paths tracked in the artifact map
MaxEntries == 3     \* largest max_entries asked of get_relevant_context
MaxSemantic == 2    \* add_semantic_context calls in one behaviour
MaxLimit == 2       \* largest limit asked of get_semantic_context
MaxRecords == 3     \* record_performance_metric calls in one behaviour

----------------------------------------------------------------------------
(* Python helpers *)

None == <<>>
Some(v) == <<v>>

Range(s) == {s[i] : i \in 1..Len(s)}

----------------------------------------------------------------------------
(* task_planner.py: enums and the Task dataclass *)

PENDING == "pending"
IN_PROGRESS == "in_progress"
COMPLETED == "completed"
FAILED == "failed"
BLOCKED == "blocked"

TaskStatus == {PENDING, IN_PROGRESS, COMPLETED, FAILED, BLOCKED}

LOW == "low"
MEDIUM == "medium"
HIGH == "high"
CRITICAL == "critical"

TaskPriority == {LOW, MEDIUM, HIGH, CRITICAL}

Task(id, title, description, status, priority, dependencies, task_type, estimated_time, actual_time, created_at, completed_at, metadata) ==
    [id |-> id, title |-> title, description |-> description,
     status |-> status, priority |-> priority, dependencies |-> dependencies,
     task_type |-> task_type, estimated_time |-> estimated_time,
     actual_time |-> actual_time, created_at |-> created_at,
     completed_at |-> completed_at, metadata |-> metadata]

\* f"task_{n:04d}": the prefix followed by the decimal digits of n, padded
\* with zeros to at least four digits (more digits when n >= 10000).
RECURSIVE Digits(_)
Digits(n) == IF n < 10 THEN <<n>> ELSE Append(Digits(n \div 10), n % 10)

RECURSIVE ZeroPad(_, _)
ZeroPad(ds, width) == IF Len(ds) >= width THEN ds ELSE ZeroPad(<<0>> \o ds, width)

TaskId(n) == <<"task_">> \o ZeroPad(Digits(n), 4)

\* task_id in self.tasks
Has(ts, id) == \E i \in 1..Len(ts) : ts[i].id = id

\* self.tasks[task_id] / self.tasks.get(task_id) for a present key
Get(ts, id) == ts[CHOOSE i \in 1..Len(ts) : ts[i].id = id]

\* self.tasks[id].<field> = value, every other entry untouched
SetTask(ts, id, t) == [i \in 1..Len(ts) |-> IF ts[i].id = id THEN t ELSE ts[i]]

----------------------------------------------------------------------------
(* TaskPlanner operations.  Each returns the new planner fields and the    *)
(* value the method returns.                                               *)

\* _get_timestamp: the reading of the clock; every reading is later than
\* the one before it.
_get_timestamp(clk) == clk + 1

\* create_task numbering the new task by the number of stored tasks
create_task_NumberedByStored(ts, counter, clk, title, description, priority, dependencies, task_type, estimated_time, metadata) ==
    LET task_id == TaskId(Len(ts))
        now == _get_timestamp(clk)
        task == Task(task_id, title, description, PENDING, priority,
                     IF dependencies = None \/ dependencies = Some(<<>>)
                        THEN <<>> ELSE dependencies[1],
                     task_type, estimated_time, None, Some(now), None, metadata)
        stored == IF Has(ts, task_id) THEN SetTask(ts, task_id, task)
                                      ELSE Append(ts, task)
    IN [tasks |-> stored, task_counter |-> counter + 1, clock |-> now,
        ret |-> task_id]

create_task(ts, counter, clk, title, description, priority, dependencies, task_type, estimated_time, metadata) ==
    LET task_id == TaskId(counter)
        now == _get_timestamp(clk)
        task == Task(task_id, title, description, PENDING, priority,
                     IF dependencies = None \/ dependencies = Some(<<>>)
                        THEN <<>> ELSE dependencies[1],   \* dependencies or []
                     task_type, estimated_time, None, Some(now), None, metadata)
        \* self.tasks[task_id] = task: a new key goes last, an existing key
        \* keeps its place
        stored == IF Has(ts, task_id) THEN SetTask(ts, task_id, task)
                                      ELSE Append(ts, task)
    IN [tasks |-> stored, task_counter |-> counter + 1, clock |-> now,
        ret |-> task_id]

\* the phases table of plan_from_requirement, with title.lower().replace(" ", "_")
Phases ==
    << [title |-> "Requirements Analysis", description |-> "Analyze and clarify the requirements",
        priority |-> HIGH, task_type |-> "requirements_analysis"],
       [title |-> "Architecture Design", description |-> "Design the system architecture",
        priority |-> HIGH, task_type |-> "architecture_design"],
       [title |-> "Database Design", description |-> "Design database schema and models",
        priority |-> MEDIUM, task_type |-> "database_design"],
       [title |-> "Backend Development", description |-> "Implement backend API and logic",
        priority |-> HIGH, task_type |-> "backend_development"],
       [title |-> "Frontend Development", description |-> "Implement user interface",
        priority |-> MEDIUM, task_type |-> "frontend_development"],
       [title |-> "Testing", description |-> "Write and run tests",
        priority |-> MEDIUM, task_type |-> "testing"],
       [title |-> "Documentation", description |-> "Create user and technical documentation",
        priority |-> LOW, task_type |-> "documentation"],
       [title |-> "Deployment", description |-> "Deploy the application",
        priority |-> HIGH, task_type |-> "deployment"] >>

\* the loop turn with every task made to depend on the first task of the
\* plan instead of the one before it
PlanStep_DependsOnFirst(st, k, requirement) ==
    LET ph == Phases[k]
        dependencies == IF st.previous_task_id = None THEN <<>>
                        ELSE <<st.task_ids[1]>>
        c == create_task(st.tasks, st.task_counter, st.clock, ph.title,
                         <<ph.description, " for: ", requirement>>, ph.priority,
                         Some(dependencies), ph.task_type, Some(60), None)
    IN [tasks |-> c.tasks, task_counter |-> c.task_counter, clock |-> c.clock,
        task_ids |-> Append(st.task_ids, c.ret),
        previous_task_id |-> Some(c.ret)]

\* One turn of the loop of plan_from_requirement for phase k, from the
\* loop state st = [tasks, task_counter, clock, task_ids, previous_task_id].
PlanStep(st, k, requirement) ==
    LET ph == Phases[k]
        \* [previous_task_id] if previous_task_id else []: an id string is
        \* never empty, so only None is falsy
        dependencies == IF st.previous_task_id = None THEN <<>>
                        ELSE <<st.previous_task_id[1]>>
        c == create_task(st.tasks, st.task_counter, st.clock, ph.title,
                         <<ph.description, " for: ", requirement>>, ph.priority,
                         Some(dependencies), ph.task_type, Some(60), None)
    IN [tasks |-> c.tasks, task_counter |-> c.task_counter, clock |-> c.clock,
        task_ids |-> Append(st.task_ids, c.ret),
        previous_task_id |-> Some(c.ret)]

RECURSIVE PlanLoop(_, _, _)
PlanLoop(st, k, requirement) ==
    IF k > Len(Phases) THEN st
    ELSE PlanLoop(PlanStep(st, k, requirement), k + 1, requirement)

plan_from_requirement(ts, counter, clk, requirement) ==
    LET st == PlanLoop([tasks |-> ts, task_counter |-> counter, clock |-> clk,
                        task_ids |-> <<>>, previous_task_id |-> None],
                       1, requirement)
    IN [tasks |-> st.tasks, task_counter |-> st.task_counter, clock |-> st.clock,
        ret |-> st.task_ids]

\* _are_dependencies_completed taking a FAILED dependency for a completed one
RECURSIVE _are_dependencies_completed_FailedCounts(_, _)
_are_dependencies_completed_FailedCounts(ts, dependencies) ==
    IF dependencies = <<>> THEN TRUE
    ELSE LET dep_id == Head(dependencies) IN
         IF ~Has(ts, dep_id) THEN FALSE
         ELSE IF Get(ts, dep_id).status \notin {COMPLETED, FAILED} THEN FALSE
         ELSE _are_dependencies_completed_FailedCounts(ts, Tail(dependencies))

\* the loop of _are_dependencies_completed: the first dependency that is
\* missing or not COMPLETED makes it return False
RECURSIVE _are_dependencies_completed(_, _)
_are_dependencies_completed(ts, dependencies) ==
    IF dependencies = <<>> THEN TRUE
    ELSE LET dep_id == Head(dependencies) IN
         IF ~Has(ts, dep_id) THEN FALSE
         ELSE IF Get(ts, dep_id).status # COMPLETED THEN FALSE
         ELSE _are_dependencies_completed(ts, Tail(dependencies))

\* start_task with the dependency check left out
start_task_NoDependencyCheck(ts, task_id) ==
    IF ~Has(ts, task_id) THEN [tasks |-> ts, ret |-> FALSE]
    ELSE LET task == Get(ts, task_id) IN
         IF task.status # PENDING THEN [tasks |-> ts, ret |-> FALSE]
         ELSE [tasks |-> SetTask(ts, task_id, [task EXCEPT !.status = IN_PROGRESS]),
               ret |-> TRUE]

start_task(ts, task_id) ==
    IF ~Has(ts, task_id) THEN [tasks |-> ts, ret |-> FALSE]
    ELSE LET task == Get(ts, task_id) IN
         IF task.status # PENDING THEN [tasks |-> ts, ret |-> FALSE]
         ELSE IF ~_are_dependencies_completed(ts, task.dependencies)
              THEN [tasks |-> ts, ret |-> FALSE]
         ELSE [tasks |-> SetTask(ts, task_id, [task EXCEPT !.status = IN_PROGRESS]),
               ret |-> TRUE]

\* complete_task with the status check left out
complete_task_NoStatusCheck(ts, clk, task_id, actual_time) ==
    IF ~Has(ts, task_id) THEN [tasks |-> ts, clock |-> clk, ret |-> FALSE]
    ELSE LET task == Get(ts, task_id)
             now == _get_timestamp(clk)
         IN [tasks |-> SetTask(ts, task_id,
                               [task EXCEPT !.status = COMPLETED,
                                            !.actual_time = actual_time,
                                            !.completed_at = Some(now)]),
             clock |-> now, ret |-> TRUE]

complete_task(ts, clk, task_id, actual_time) ==
    IF ~Has(ts, task_id) THEN [tasks |-> ts, clock |-> clk, ret |-> FALSE]
    ELSE LET task == Get(ts, task_id) IN
         IF task.status # IN_PROGRESS THEN [tasks |-> ts, clock |-> clk, ret |-> FALSE]
         ELSE LET now == _get_timestamp(clk) IN
              [tasks |-> SetTask(ts, task_id,
                                 [task EXCEPT !.status = COMPLETED,
                                              !.actual_time = actual_time,
                                              !.completed_at = Some(now)]),
               clock |-> now, ret |-> TRUE]

\* a dict as a function from its keys; d[key] = value
DictSet(d, key, value) ==
    [k \in DOMAIN d \cup {key} |-> IF k = key THEN value ELSE d[k]]

EmptyDict == [k \in {} |-> k]

\* fail_task marking the task BLOCKED instead of FAILED
fail_task_Blocks(ts, task_id, reason) ==
    IF ~Has(ts, task_id) THEN [tasks |-> ts, ret |-> FALSE]
    ELSE [tasks |-> SetTask(ts, task_id, [Get(ts, task_id) EXCEPT !.status = BLOCKED]),
          ret |-> TRUE]

fail_task(ts, task_id, reason) ==
    IF ~Has(ts, task_id) THEN [tasks |-> ts, ret |-> FALSE]
    ELSE LET task == Get(ts, task_id)
             \* if not task.metadata: task.metadata = {}  (None and {} are falsy)
             md == IF task.metadata = None THEN EmptyDict
                   ELSE IF DOMAIN task.metadata[1] = {} THEN EmptyDict
                   ELSE task.metadata[1]
         IN [tasks |-> SetTask(ts, task_id,
                               [task EXCEPT !.status = FAILED,
                                            !.metadata = Some(DictSet(md, "failure_reason", reason))]),
             ret |-> TRUE]

\* clear_completed_tasks deleting the FAILED tasks as well
clear_completed_tasks_AlsoFailed(ts) ==
    SelectSeq(ts, LAMBDA t : t.status \notin {COMPLETED, FAILED})

\* del self.tasks[task_id] for every task that is COMPLETED
clear_completed_tasks(ts) ==
    SelectSeq(ts, LAMBDA t : t.status # COMPLETED)

\* The code points of the characters of a TaskPriority value (the string
\* that t.priority.value is).
CodePoints(s) ==
    CASE s = "low"      -> <<108, 111, 119>>
      [] s = "medium"   -> <<109, 101, 100, 105, 117, 109>>
      [] s = "high"     -> <<104, 105, 103, 104>>
      [] s = "critical" -> <<99, 114, 105, 116, 105, 99, 97, 108>>

\* Python's str < str: lexicographic on code points, a proper prefix first
RECURSIVE SeqLess(_, _)
SeqLess(a, b) ==
    IF b = <<>> THEN FALSE
    ELSE IF a = <<>> THEN TRUE
    ELSE IF Head(a) # Head(b) THEN Head(a) < Head(b)
    ELSE SeqLess(Tail(a), Tail(b))

StrLess(s, t) == SeqLess(CodePoints(s), CodePoints(t))

\* the sort key of get_ready_tasks: lambda t: t.priority.value
SortKey(t) == t.priority

\* sorted(xs, key=SortKey, reverse=True): descending by key, and stable:
\* elements with equal keys keep the order they have in xs.  x is placed
\* behind every element whose key is not smaller than its own.
RECURSIVE InsertDescending(_, _)
InsertDescending(sorted, x) ==
    IF sorted = <<>> THEN <<x>>
    ELSE IF StrLess(SortKey(Head(sorted)), SortKey(x))
         THEN <<x>> \o sorted
         ELSE <<Head(sorted)>> \o InsertDescending(Tail(sorted), x)

RECURSIVE SortedDescending(_, _)
SortedDescending(xs, acc) ==
    IF xs = <<>> THEN acc
    ELSE SortedDescending(Tail(xs), InsertDescending(acc, Head(xs)))

get_ready_tasks(ts) ==
    LET ready_tasks ==
            SelectSeq(ts, LAMBDA task :
                /\ task.status = PENDING
                /\ _are_dependencies_completed(ts, task.dependencies))
    IN SortedDescending(ready_tasks, <<>>)

----------------------------------------------------------------------------
(* The planner driven by a client: any call, on any id, in any order.      *)

\* the ids a client names in start_task, complete_task and fail_task: the
\* first ones the planner hands out, whether handed out yet or not
ClientIds == {TaskId(n) : n \in 0..MaxId}

Requirements == {"build a todo app", ""}
ActualTimes == {None, Some(30)}
Reasons == {"Unknown error"}

\* what a client passes to create_task as dependencies: nothing, the first
\* task, or an id that has not been handed out yet
DependencyChoices(counter) ==
    {None, Some(<<TaskId(0)>>), Some(<<TaskId(counter + 1)>>)}

NoCall == [op |-> "none", id |-> None, ret |-> FALSE]

\* calls counts the client's calls: all of them, and those that create tasks
NoCalls == [total |-> 0, create_task |-> 0]

Count(c, op) ==
    [c EXCEPT !.total = @ + 1,
              !.create_task = IF op = "create_task" THEN @ + 1 ELSE @]

PlannerInit ==
    /\ tasks = <<>>
    /\ task_counter = 0
    /\ clock = 0
    /\ last = NoCall
    /\ calls = NoCalls

CreateTask ==
    /\ calls.total < MaxCalls
    /\ calls.create_task < MaxCreate
    /\ task_counter < MaxTasks
    /\ \E priority \in TaskPriority, dependencies \in DependencyChoices(task_counter) :
        LET r == create_task(tasks, task_counter, clock, "Setup", <<"set up">>,
                             priority, dependencies, "generic", None, None)
        IN /\ tasks' = r.tasks
           /\ task_counter' = r.task_counter
           /\ clock' = r.clock
           /\ last' = [op |-> "create_task", id |-> Some(r.ret), ret |-> r.ret]
    /\ calls' = Count(calls, "create_task")
    /\ UNCHANGED engineVars

PlanFromRequirement ==
    /\ calls.total < MaxCalls
    /\ task_counter + Len(Phases) <= MaxTasks
    /\ \E requirement \in Requirements :
        LET r == plan_from_requirement(tasks, task_counter, clock, requirement)
        IN /\ tasks' = r.tasks
           /\ task_counter' = r.task_counter
           /\ clock' = r.clock
           /\ last' = [op |-> "plan_from_requirement", id |-> None, ret |-> r.ret]
    /\ calls' = Count(calls, "plan_from_requirement")
    /\ UNCHANGED engineVars

StartTask ==
    /\ calls.total < MaxCalls
    /\ \E task_id \in ClientIds :
        LET r == start_task(tasks, task_id)
        IN /\ tasks' = r.tasks
           /\ last' = [op |-> "start_task", id |-> Some(task_id), ret |-> r.ret]
    /\ calls' = Count(calls, "start_task")
    /\ UNCHANGED <<task_counter, clock>>
    /\ UNCHANGED engineVars

CompleteTask ==
    /\ calls.total < MaxCalls
    /\ \E task_id \in ClientIds, actual_time \in ActualTimes :
        LET r == complete_task(tasks, clock, task_id, actual_time)
        IN /\ tasks' = r.tasks
           /\ clock' = r.clock
           /\ last' = [op |-> "complete_task", id |-> Some(task_id), ret |-> r.ret]
    /\ calls' = Count(calls, "complete_task")
    /\ UNCHANGED task_counter
    /\ UNCHANGED engineVars

FailTask ==
    /\ calls.total < MaxCalls
    /\ \E task_id \in ClientIds, reason \in Reasons :
        LET r == fail_task(tasks, task_id, reason)
        IN /\ tasks' = r.tasks
           /\ last' = [op |-> "fail_task", id |-> Some(task_id), ret |-> r.ret]
    /\ calls' = Count(calls, "fail_task")
    /\ UNCHANGED <<task_counter, clock>>
    /\ UNCHANGED engineVars

ClearCompletedTasks ==
    /\ calls.total < MaxCalls
    /\ tasks' = clear_completed_tasks(tasks)
    /\ last' = [op |-> "clear_completed_tasks", id |-> None, ret |-> FALSE]
    /\ calls' = Count(calls, "clear_completed_tasks")
    /\ UNCHANGED <<task_counter, clock>>
    /\ UNCHANGED engineVars

\* _get_overall_status looking at the completed tasks before the failed ones
_get_overall_status_CompletedFirst(completed, failed, total) ==
    IF completed = total THEN "completed"
    ELSE IF completed > 0 THEN "in_progress"
    ELSE IF failed > 0 THEN "has_issues"
    ELSE "not_started"

\* _get_overall_status
_get_overall_status(completed, failed, total) ==
    IF failed > 0 THEN "has_issues"
    ELSE IF completed = total THEN "completed"
    ELSE IF completed > 0 THEN "in_progress"
    ELSE "not_started"

\* sum(1 for t in self.tasks.values() if t.status == status)
CountStatus(ts, status) == Cardinality({i \in 1..Len(ts) : ts[i].status = status})

\* round((completed / total) * 100, 2), in hundredths of a percent
ProgressPercentage(completed, total) ==
    (2 * 10000 * completed + total) \div (2 * total)

\* get_task_progress: a dict, as a record; with no task at all it has only
\* the keys progress and status
get_task_progress(ts) ==
    LET total_tasks == Len(ts) IN
    IF total_tasks = 0 THEN [progress |-> 0, status |-> "No tasks"]
    ELSE LET completed == CountStatus(ts, COMPLETED)
             failed == CountStatus(ts, FAILED)
         IN [total_tasks |-> total_tasks,
             completed |-> completed,
             in_progress |-> CountStatus(ts, IN_PROGRESS),
             failed |-> failed,
             pending |-> CountStatus(ts, PENDING),
             progress_percentage |-> ProgressPercentage(completed, total_tasks),
             status |-> _get_overall_status(completed, failed, total_tasks)]

----------------------------------------------------------------------------
(* autonomous_engine.py: retry_with_backoff *)

Min(a, b) == IF a <= b THEN a ELSE b

RECURSIVE Pow2(_)
Pow2(n) == IF n = 0 THEN 1 ELSE 2 * Pow2(n - 1)

\* the delay without the cap
Delay_Uncapped(base_delay, max_delay, attempt) == base_delay * Pow2(attempt)

\* the delay slept after the failed attempt number `attempt` (0-based)
Delay(base_delay, max_delay, attempt) == Min(base_delay * Pow2(attempt), max_delay)

\* the wrapper's loop sleeping after every attempt, the one that returned
\* and the last one included
RECURSIVE RetryLoop_SleepsAfterLast(_, _, _, _, _, _)
RetryLoop_SleepsAfterLast(max_retries, base_delay, max_delay, outcomes, attempt, delays) ==
    IF attempt >= max_retries
    THEN [calls |-> attempt, delays |-> delays, raised |-> TRUE,
          value |-> IF attempt = 0 THEN "TypeError" ELSE outcomes[attempt].value]
    ELSE LET o == outcomes[attempt + 1] IN
         IF ~o.raised
         THEN [calls |-> attempt + 1, delays |-> Append(delays, Delay(base_delay, max_delay, attempt)),
               raised |-> FALSE, value |-> o.value]
         ELSE RetryLoop_SleepsAfterLast(max_retries, base_delay, max_delay, outcomes, attempt + 1,
                                        Append(delays, Delay(base_delay, max_delay, attempt)))

\* The wrapper's loop from `attempt` on.  outcomes[k] is what the k-th call
\* of the wrapped function does: [raised |-> FALSE, value |-> v] when it
\* returns v, [raised |-> TRUE, value |-> e] when it raises e.  The result
\* says how often the function was called, which delays were slept, and
\* what the wrapper returns or raises.
RECURSIVE RetryLoop(_, _, _, _, _, _)
RetryLoop(max_retries, base_delay, max_delay, outcomes, attempt, delays) ==
    IF attempt >= max_retries
    THEN \* range(max_retries) is empty (max_retries <= 0): `raise last_exception`
         \* with last_exception = None, which is a TypeError
         [calls |-> attempt, delays |-> delays, raised |-> TRUE, value |-> "TypeError"]
    ELSE LET o == outcomes[attempt + 1] IN
         IF ~o.raised
         THEN [calls |-> attempt + 1, delays |-> delays, raised |-> FALSE, value |-> o.value]
         ELSE IF attempt = max_retries - 1
              THEN [calls |-> attempt + 1, delays |-> delays, raised |-> TRUE, value |-> o.value]
              ELSE RetryLoop(max_retries, base_delay, max_delay, outcomes, attempt + 1,
                             Append(delays, Delay(base_delay, max_delay, attempt)))

\* the wrapper giving up one attempt early
retry_with_backoff_OneAttemptShort(max_retries, base_delay, max_delay, outcomes) ==
    RetryLoop(max_retries - 1, base_delay, max_delay, outcomes, 0, <<>>)

retry_with_backoff(max_retries, base_delay, max_delay, outcomes) ==
    RetryLoop(max_retries, base_delay, max_delay, outcomes, 0, <<>>)

Returned(v) == [raised |-> FALSE, value |-> v]
Raised(e) == [raised |-> TRUE, value |-> e]

\* A caller wraps an operation with a policy and calls it.  What the
\* operation does on each attempt is the caller's environment.
RetryCounts == 0..MaxRetries
BaseDelays == {1, 2}
MaxDelays == {3, 60}
AttemptOutcomes == {Returned("ok"), Returned("done"), Raised("ConnectionError"), Raised("TimeoutError")}

\* The wrapper keeps nothing between calls: a behaviour is one call.
CallRetried ==
    /\ last = NoCall
    /\ \E max_retries \in RetryCounts, base_delay \in BaseDelays, max_delay \in MaxDelays :
         \E outcomes \in [1..max_retries -> AttemptOutcomes] :
            last' = [op |-> "retry_with_backoff",
                     max_retries |-> max_retries,
                     base_delay |-> base_delay,
                     max_delay |-> max_delay,
                     outcomes |-> outcomes,
                     ret |-> retry_with_backoff(max_retries, base_delay, max_delay, outcomes)]
    /\ UNCHANGED <<plannerVars, calls, engineVars>>

----------------------------------------------------------------------------
(* autonomous_engine.py: task dispatch and the handlers *)

\* Titles a caller of _execute_task may hand in besides the planner's: one
\* or two words, category names in any case and any order among them.
Words == {"BACKEND", "Frontend", "database", "Testing", "Deployment", "Docs"}
WordSeqs == {<<w>> : w \in Words} \cup {<<v, w>> : v \in Words, w \in Words}
JoinStr(ws) == IF Len(ws) = 1 THEN ws[1] ELSE ws[1] \o " " \o ws[2]
DispatchTitles == {JoinStr(ws) : ws \in WordSeqs}

\* the characters of the phase titles and of the words
Chars(s) ==
    CASE s = "Requirements Analysis" ->
           <<"R", "e", "q", "u", "i", "r", "e", "m", "e", "n", "t", "s", " ", "A", "n", "a", "l", "y", "s", "i", "s">>
      [] s = "Architecture Design" ->
           <<"A", "r", "c", "h", "i", "t", "e", "c", "t", "u", "r", "e", " ", "D", "e", "s", "i", "g", "n">>
      [] s = "Database Design" ->
           <<"D", "a", "t", "a", "b", "a", "s", "e", " ", "D", "e", "s", "i", "g", "n">>
      [] s = "Backend Development" ->
           <<"B", "a", "c", "k", "e", "n", "d", " ", "D", "e", "v", "e", "l", "o", "p", "m", "e", "n", "t">>
      [] s = "Frontend Development" ->
           <<"F", "r", "o", "n", "t", "e", "n", "d", " ", "D", "e", "v", "e", "l", "o", "p", "m", "e", "n", "t">>
      [] s = "Testing" ->
           <<"T", "e", "s", "t", "i", "n", "g">>
      [] s = "Documentation" ->
           <<"D", "o", "c", "u", "m", "e", "n", "t", "a", "t", "i", "o", "n">>
      [] s = "Deployment" ->
           <<"D", "e", "p", "l", "o", "y", "m", "e", "n", "t">>
      [] s = "Setup" ->
           <<"S", "e", "t", "u", "p">>
      [] s = "BACKEND" ->
           <<"B", "A", "C", "K", "E", "N", "D">>
      [] s = "Frontend" ->
           <<"F", "r", "o", "n", "t", "e", "n", "d">>
      [] s = "database" ->
           <<"d", "a", "t", "a", "b", "a", "s", "e">>
      [] s = "Docs" ->
           <<"D", "o", "c", "s">>

\* the characters of a title
TitleChars(s) ==
    IF s \in {Phases[i].title : i \in 1..Len(Phases)} \cup Words \cup {"Setup"}
    THEN Chars(s)
    ELSE LET ws == CHOOSE ws \in WordSeqs : Len(ws) = 2 /\ JoinStr(ws) = s
         IN Chars(ws[1]) \o <<" ">> \o Chars(ws[2])

\* str.lower() on one character
LowerChar(c) ==
    CASE c = "A" -> "a"
      [] c = "B" -> "b"
      [] c = "C" -> "c"
      [] c = "D" -> "d"
      [] c = "E" -> "e"
      [] c = "F" -> "f"
      [] c = "I" -> "i"
      [] c = "K" -> "k"
      [] c = "L" -> "l"
      [] c = "N" -> "n"
      [] c = "P" -> "p"
      [] c = "R" -> "r"
      [] c = "S" -> "s"
      [] c = "T" -> "t"
      [] OTHER -> c

Lower(cs) == [i \in 1..Len(cs) |-> LowerChar(cs[i])]

\* needle in hay
Contains(hay, needle) ==
    \E i \in 0..(Len(hay) - Len(needle)) :
        SubSeq(hay, i + 1, i + Len(needle)) = needle

\* the chain with the testing test moved to the front
Category_TestingFirst(title) ==
    LET lowered == Lower(TitleChars(title)) IN
    IF Contains(lowered, <<"t","e","s","t","i","n","g">>) THEN "testing"
    ELSE IF Contains(lowered, <<"b","a","c","k","e","n","d">>) THEN "backend"
    ELSE IF Contains(lowered, <<"f","r","o","n","t","e","n","d">>) THEN "frontend"
    ELSE IF Contains(lowered, <<"d","a","t","a","b","a","s","e">>) THEN "database"
    ELSE IF Contains(lowered, <<"d","e","p","l","o","y","m","e","n","t">>) THEN "deployment"
    ELSE "generic"

\* the chain of `if "..." in task.title.lower()` in _execute_task
Category(title) ==
    LET lowered == Lower(TitleChars(title)) IN
    IF Contains(lowered, <<"b","a","c","k","e","n","d">>) THEN "backend"
    ELSE IF Contains(lowered, <<"f","r","o","n","t","e","n","d">>) THEN "frontend"
    ELSE IF Contains(lowered, <<"d","a","t","a","b","a","s","e">>) THEN "database"
    ELSE IF Contains(lowered, <<"t","e","s","t","i","n","g">>) THEN "testing"
    ELSE IF Contains(lowered, <<"d","e","p","l","o","y","m","e","n","t">>) THEN "deployment"
    ELSE "generic"

\* What a handler gives back: a bool, or (the deployment handler) the dict
\* that Deployer.prepare_deployment returned.
Bool(b) == [kind |-> "bool", value |-> b]
Dict(ok) == [kind |-> "dict", value |-> ok]

\* Python truth value: a bool is itself, a dict with keys is true
Truthy(v) == IF v.kind = "dict" THEN TRUE ELSE v.value

\* What the generation capability does on one call: it returns text, it
\* returns the empty string, or it raises.
LlmOutcomes == {"text", "empty", "raise"}

\* What the collaborators do during one call of a handler: the generation
\* capability, and whether Deployer.prepare_deployment got through (it
\* catches its own exceptions and reports success False).
Environments == [llm : LlmOutcomes, deployed : BOOLEAN]

\* What an observer does when it is called: it returns, or it raises.
CallbackBehaviours == {"ok", "raise"}

\* the loop over progress_callbacks from callback i on, stopping at the
\* first raising callback
RECURSIVE NotifyUnguarded(_, _, _)
NotifyUnguarded(callbacks, i, delivered) ==
    IF i > Len(callbacks) THEN [delivered |-> delivered, raised |-> FALSE]
    ELSE IF callbacks[i] = "raise"
         THEN [delivered |-> Append(delivered, i), raised |-> TRUE]
         ELSE NotifyUnguarded(callbacks, i + 1, Append(delivered, i))

\* _update_progress without the try around the call of a callback
_update_progress_Unguarded(callbacks, task_name, percentage, status) ==
    LET n == NotifyUnguarded(callbacks, 1, <<>>) IN
    [ev |-> "_update_progress", task_name |-> task_name, percentage |-> percentage,
     status |-> status, delivered |-> n.delivered, raised |-> n.raised]

\* _update_progress: every callback is called in registration order, an
\* exception of a callback is caught and logged.  delivered lists the
\* callbacks called; raised says whether an exception left the method.
_update_progress(callbacks, task_name, percentage, status) ==
    [ev |-> "_update_progress", task_name |-> task_name, percentage |-> percentage,
     status |-> status,
     delivered |-> [i \in 1..Len(callbacks) |-> i],
     raised |-> FALSE]

\* CodeGenerator.generate_*: the text, or None when the text is empty or
\* the capability raised (the generator catches it)
GeneratedCode(env) == IF env.llm = "text" THEN Some("code") ELSE None

\* code_context is a dict: a sequence of [path, entry] in insertion order
CtxHas(ctx, path) == \E i \in 1..Len(ctx) : ctx[i].path = path

CtxSet(ctx, path, entry) ==
    IF CtxHas(ctx, path)
    THEN [i \in 1..Len(ctx) |-> IF ctx[i].path = path THEN [path |-> path, entry |-> entry] ELSE ctx[i]]
    ELSE Append(ctx, [path |-> path, entry |-> entry])

\* MemoryManager._calculate_checksum: the last eight characters of
\* str(hash(content)), within one process a function of the content
_calculate_checksum(content) == <<"hash", content>>

\* MemoryManager.add_code_context: the entry stored is a dict around the
\* content; last_updated is a timestamp string that nothing reads
add_code_context(ctx, path, content, language) ==
    CtxSet(ctx, path, [kind |-> "dict", content |-> content, language |-> language,
                       last_updated |-> "isoformat",
                       checksum |-> _calculate_checksum(content)])

\* what a handler gives back, with the tracked files it leaves and the
\* calls it made to the tester
HandlerResult(raised, value, ctx, tests, fixes) ==
    [raised |-> raised, value |-> value, code_context |-> ctx, tests |-> tests, fixes |-> fixes]

\* the file a generation handler writes, and its language
GeneratedFile(category) ==
    CASE category = "backend" -> [path |-> "main.py", language |-> "python"]
      [] category = "frontend" -> [path |-> "frontend.html", language |-> "html"]
      [] category = "database" -> [path |-> "models.py", language |-> "python"]

\* _execute_backend_task, _execute_frontend_task, _execute_database_task:
\* False without code, otherwise the file is written and tracked, and True
_execute_generation_task(category, env, ctx) ==
    IF GeneratedCode(env) = None
    THEN HandlerResult(FALSE, Bool(FALSE), ctx, 0, 0)
    ELSE LET f == GeneratedFile(category) IN
         HandlerResult(FALSE, Bool(TRUE),
                       add_code_context(ctx, f.path, GeneratedCode(env)[1], f.language), 0, 0)

\* file_path.endswith(('.py', '.html', '.js')) on the paths the engine tracks
Testable(path) == path \in {"main.py", "models.py", "frontend.html"}

\* Tester.test_code: for a .py, .html or .js path it calls test_python_code,
\* test_html_code or test_javascript_code, names tester.py does not define:
\* NameError.  For any other path it reports success.
Tester_test_code(code, path) ==
    IF Testable(path) THEN Raised("NameError") ELSE Returned([success |-> TRUE])

\* Tester.fix_code_issues: calls fix_code_with_llm, which tester.py does not
\* define either
Tester_fix_code_issues(code, test_result) == Raised("NameError")

\* what one turn of the loop of _execute_testing_task leaves: ok is False
\* when the file could not be got to pass, raised says that an exception
\* leaves the loop
Turn(raised, ctx, ok, tests, fixes) ==
    [raised |-> raised, code_context |-> ctx, ok |-> ok, tests |-> tests, fixes |-> fixes]

\* the turn from the re-test of the fixed code on
Retested(retest_result, fixed, path, ctx) ==
    IF retest_result.raised THEN Turn(TRUE, ctx, TRUE, 2, 1)
    ELSE IF retest_result.value.success THEN Turn(FALSE, CtxSet(ctx, path, fixed), TRUE, 2, 1)
    ELSE Turn(FALSE, ctx, FALSE, 2, 1)

\* the turn from the answer of fix_code_issues on
FixRequested(fixed_code, original_code, path, ctx) ==
    IF fixed_code.raised THEN Turn(TRUE, ctx, TRUE, 1, 1)
    ELSE IF fixed_code.value = None \/ fixed_code.value = Some(original_code)
    THEN Turn(FALSE, ctx, FALSE, 1, 1)
    ELSE Retested(Tester_test_code(fixed_code.value[1], path), fixed_code.value[1], path, ctx)

\* the turn from the first test of the file on
Tested(test_result, original_code, path, ctx) ==
    IF test_result.raised THEN Turn(TRUE, ctx, TRUE, 1, 0)
    ELSE IF test_result.value.success THEN Turn(FALSE, ctx, TRUE, 1, 0)
    ELSE FixRequested(Tester_fix_code_issues(original_code, test_result.value),
                      original_code, path, ctx)

\* the stored entry of a tracked file
CtxGet(ctx, path) == (CHOOSE c \in Range(ctx) : c.path = path).entry

\* one turn of the loop of _execute_testing_task, for the file at path
TestFile(path, ctx) ==
    IF ~Testable(path) THEN Turn(FALSE, ctx, TRUE, 0, 0)
    ELSE Tested(Tester_test_code(CtxGet(ctx, path), path), CtxGet(ctx, path), path, ctx)

\* the loop of _execute_testing_task over the tracked files from file i on,
\* turn being what the turn for file i leaves
RECURSIVE TestingLoop(_, _, _, _, _, _)
TestingLoop(files, i, turn, ok, tests, fixes) ==
    IF turn.raised
    THEN HandlerResult(TRUE, "NameError", turn.code_context, tests + turn.tests, fixes + turn.fixes)
    ELSE IF i >= Len(files)
    THEN HandlerResult(FALSE, Bool(ok /\ turn.ok), turn.code_context,
                       tests + turn.tests, fixes + turn.fixes)
    ELSE TestingLoop(files, i + 1, TestFile(files[i + 1], turn.code_context), ok /\ turn.ok,
                     tests + turn.tests, fixes + turn.fixes)

\* the except branch of _execute_testing_task: True whatever was raised
TestingCaught(r) ==
    IF r.raised THEN HandlerResult(FALSE, Bool(TRUE), r.code_context, r.tests, r.fixes) ELSE r

\* _execute_testing_task: the loop inside try; any exception ends the
\* handler with True
_execute_testing_task(env, ctx) ==
    IF ctx = <<>> THEN HandlerResult(FALSE, Bool(TRUE), ctx, 0, 0)
    ELSE TestingCaught(TestingLoop([i \in 1..Len(ctx) |-> ctx[i].path], 1,
                                   TestFile(ctx[1].path, ctx), TRUE, 0, 0))

\* _execute_deployment_task: returns the deployer's dict as it is
_execute_deployment_task(env, ctx) == HandlerResult(FALSE, Dict(env.deployed), ctx, 0, 0)

\* _execute_generic_task: len(response) > 0; an error of the capability is
\* not caught here
_execute_generic_task(env, ctx) ==
    CASE env.llm = "text" -> HandlerResult(FALSE, Bool(TRUE), ctx, 0, 0)
      [] env.llm = "empty" -> HandlerResult(FALSE, Bool(FALSE), ctx, 0, 0)
      [] env.llm = "raise" -> HandlerResult(TRUE, "GenerationFailure", ctx, 0, 0)

\* the handler of category c, run in env on the tracked files ctx
HandlerOf(c, env, ctx) ==
    CASE c = "backend" -> _execute_generation_task(c, env, ctx)
      [] c = "frontend" -> _execute_generation_task(c, env, ctx)
      [] c = "database" -> _execute_generation_task(c, env, ctx)
      [] c = "testing" -> _execute_testing_task(env, ctx)
      [] c = "deployment" -> _execute_deployment_task(env, ctx)
      [] OTHER -> _execute_generic_task(env, ctx)

\* the handler _execute_task picks for the task
Handler(task, env, ctx) == HandlerOf(Category(task.title), env, ctx)

\* what one call of the body of _execute_task gives: the handler's result,
\* the events pushed, and whether the except branch was taken
BodyResult(h, events, handler_raised) ==
    h @@ [events |-> events, handler_raised |-> handler_raised]

\* the except branch of _execute_task: a "failed" event is pushed and the
\* body returns False
BodyCaught(h, events, failed) ==
    IF failed.raised
    THEN BodyResult(HandlerResult(TRUE, "CallbackError", h.code_context, h.tests, h.fixes),
                    Append(events, failed), TRUE)
    ELSE BodyResult(HandlerResult(FALSE, Bool(FALSE), h.code_context, h.tests, h.fixes),
                    Append(events, failed), TRUE)

\* the body of _execute_task without its except branch: what the handler
\* raises leaves the body
BodyHandled_Uncaught(h, events, task, callbacks) == BodyResult(h, events, FALSE)

\* the body of _execute_task from the return of the handler on
BodyHandled(h, events, task, callbacks) ==
    IF ~h.raised THEN BodyResult(h, events, FALSE)
    ELSE BodyCaught(h, events, _update_progress(callbacks, task.title, 0, "failed"))

\* the "generating" event the backend handler pushes first thing
Generating(task, callbacks) ==
    IF Category(task.title) = "backend"
    THEN <<_update_progress(callbacks, task.title, 25, "generating")>>
    ELSE <<>>

\* the body of _execute_task inside the try
BodyTried(executing, generating, task, env, callbacks, ctx) ==
    BodyHandled(IF generating # <<>> /\ generating[1].raised
                THEN HandlerResult(TRUE, "CallbackError", ctx, 0, 0)
                ELSE Handler(task, env, ctx),
                <<executing>> \o generating, task, callbacks)

\* the body of _execute_task from the "executing" event on, which is pushed
\* before the try
BodyStarted(executing, task, env, callbacks, ctx) ==
    IF executing.raised
    THEN BodyResult(HandlerResult(TRUE, "CallbackError", ctx, 0, 0), <<executing>>, FALSE)
    ELSE BodyTried(executing, Generating(task, callbacks), task, env, callbacks, ctx)

\* The body of _execute_task.  The "executing" event is pushed before the
\* try; the backend handler pushes a "generating" event first thing; any
\* exception inside the try is caught, a "failed" event is pushed and the
\* body returns False.
ExecuteTaskBody(task, env, callbacks, ctx) ==
    BodyStarted(_update_progress(callbacks, task.title, 0, "executing"), task, env, callbacks, ctx)

\* what the calls made of the body leave, r being what the wrapper gives
CallsMade(r, first, second) ==
    IF r.calls = 1
    THEN r @@ [events |-> first.events, code_context |-> first.code_context,
               tests |-> first.tests, fixes |-> first.fixes,
               handler_raised |-> first.handler_raised]
    ELSE r @@ [events |-> first.events \o second.events, code_context |-> second.code_context,
               tests |-> first.tests + second.tests, fixes |-> first.fixes + second.fixes,
               handler_raised |-> second.handler_raised]

\* the wrapper of _execute_task around the two calls of the body it may make
Wrapped(first, second) == CallsMade(retry_with_backoff(2, 1, 60, <<first, second>>), first, second)

\* the second call of the body starts from what the first call left
Attempts(first, task, envs, callbacks) ==
    Wrapped(first, ExecuteTaskBody(task, envs[2], callbacks, first.code_context))

\* _execute_task as decorated: @retry_with_backoff(max_retries=2, base_delay=1.0)
\* around the body; envs[k] is what the collaborators do during the k-th
\* call.  Besides what the wrapper gives, the result carries the events
\* pushed, the tracked files left and the tester calls of the calls made.
_execute_task(task, envs, callbacks, ctx) ==
    Attempts(ExecuteTaskBody(task, envs[1], callbacks, ctx), task, envs, callbacks)

\* What the collaborators do during the calls of one _execute_task: during
\* the first call anything, and during the second call anything if the
\* first call raised (there is no second call otherwise).
AttemptEnvironments(task, callbacks, ctx) ==
    {envs \in [1..2 -> Environments] :
        ExecuteTaskBody(task, envs[1], callbacks, ctx).raised \/ envs[2] = envs[1]}

\* A caller hands _execute_task a task of any of the titles.  The dispatch
\* keeps nothing between calls: a behaviour is one call.
DispatchTask ==
    /\ last = NoCall
    /\ \E title \in DispatchTitles, envs \in [1..2 -> Environments] :
         LET task == Task(TaskId(0), title, <<"dispatch">>, IN_PROGRESS, MEDIUM, <<>>,
                          "generic", None, None, Some(1), None, None)
         IN last' = [op |-> "_execute_task",
                     title |-> title,
                     category |-> Category(task.title),
                     envs |-> envs,
                     ret |-> _execute_task(task, envs, <<>>, <<>>)]
    /\ UNCHANGED <<plannerVars, calls, engineVars>>

\* the stop test with HIGH left out
IsCritical_OnlyCritical(priority) == priority = CRITICAL

\* if task.priority in [TaskPriority.HIGH, TaskPriority.CRITICAL]
IsCritical(priority) == priority \in {HIGH, CRITICAL}

\* the overall result with the test for failed tasks left out
OverallSuccess_IgnoresFailed(progress) == progress.completed > 0

\* overall_success = progress["failed"] == 0 and progress["completed"] > 0
OverallSuccess(progress) == progress.failed = 0 /\ progress.completed > 0

----------------------------------------------------------------------------
(* The engine: build_application and _execute_development_plan, one task   *)
(* of the plan at a time.                                                  *)

EngineInit ==
    /\ pc = "idle"
    /\ plan = <<>>
    /\ idx = 0
    /\ success = Bool(FALSE)
    /\ execResult = None
    /\ result = None
    /\ log = <<>>
    /\ builds = 0
    /\ progress_callbacks = <<>>
    /\ code_context = <<>>

\* the dict build_application returns
BuildResult(ok, error, summary) ==
    [success |-> ok, error |-> error, summary |-> summary]

ErrorResult(e) == BuildResult(FALSE, Some(e), None)

\* the except branch of build_application raising the error again
BuildCaught_Reraises(e) == Raised(e)

\* the except branch of build_application: the error becomes a result
BuildCaught(e) == Returned(ErrorResult(e))

\* build_application as decorated: @retry_with_backoff(max_retries=3,
\* base_delay=2.0) around the body.  outcome is what the body does; a body
\* that raises does so again on every attempt.  What the caller gets is the
\* returned dict, or the exception.
BuildReturn(outcome) ==
    LET r == retry_with_backoff(3, 2, 60, <<outcome, outcome, outcome>>) IN
    IF r.raised THEN [raised |-> TRUE, error |-> r.value] ELSE r.value

\* add_progress_callback, by a client that registers its observers before
\* it builds
AddProgressCallback ==
    /\ pc = "idle"
    /\ builds = 0
    /\ Len(progress_callbacks) < MaxCallbacks
    /\ \E behaviour \in CallbackBehaviours :
         progress_callbacks' = Append(progress_callbacks, behaviour)
    /\ UNCHANGED <<plannerVars, clientVars, pc, plan, idx, success, execResult, result,
                   log, builds, code_context>>
    /\ UNCHANGED memoryVars

\* build_application up to the loop of _execute_development_plan: the plan
\* is asked of the generation capability and the tasks are created.  An
\* error of the capability ends the build in the except branch.
BuildApplication ==
    /\ pc = "idle"
    /\ builds < MaxBuilds
    /\ builds' = builds + 1
    /\ execResult' = None
    /\ LET starting == _update_progress(progress_callbacks, "Initialization", 0, "starting") IN
       /\ log' = <<starting>>
       /\ \E requirement \in Requirements, llm \in LlmOutcomes :
        IF starting.raised
        THEN \* the event is pushed before the try
             /\ result' = Some(BuildReturn(Raised("CallbackError")))
             /\ plan' = <<>>
             /\ UNCHANGED <<plannerVars, pc, idx>>
        ELSE IF llm = "raise"
        THEN /\ result' = Some(BuildReturn(BuildCaught("GenerationFailure")))
             /\ plan' = <<>>
             /\ UNCHANGED <<plannerVars, pc, idx>>
        ELSE LET r == plan_from_requirement(tasks, task_counter, clock, requirement)
             IN /\ tasks' = r.tasks
                /\ task_counter' = r.task_counter
                /\ clock' = r.clock
                /\ plan' = r.ret
                /\ idx' = 1
                /\ pc' = "loop"
                /\ result' = None
    /\ UNCHANGED <<success, clientVars, progress_callbacks, code_context>>
    /\ UNCHANGED memoryVars

\* _execute_development_plan called with a plan that has no tasks
ExecuteEmptyPlan ==
    /\ pc = "idle"
    /\ plan' = <<>>
    /\ log' = <<>>
    /\ execResult' = Some(FALSE)
    /\ UNCHANGED <<plannerVars, clientVars, pc, idx, success, result, builds,
                   progress_callbacks, code_context>>
    /\ UNCHANGED memoryVars

\* the head of one turn of the loop going on to _execute_task whatever
\* start_task returned
ExecStart_RunsUnstarted ==
    /\ pc = "loop"
    /\ idx <= Len(plan)
    /\ LET task_id == plan[idx] IN
       IF ~Has(tasks, task_id)
       THEN /\ idx' = idx + 1
            /\ UNCHANGED <<tasks, pc, log>>
       ELSE LET r == start_task(tasks, task_id) IN
            /\ tasks' = r.tasks
            /\ log' = Append(log, [ev |-> "start_task", id |-> task_id, ret |-> r.ret])
            /\ pc' = "run" /\ idx' = idx
    /\ UNCHANGED <<task_counter, clock, clientVars, plan, success, execResult, result, builds,
                   progress_callbacks, code_context>>
    /\ UNCHANGED memoryVars

\* the head of one turn of the loop: get_task_by_id and start_task
ExecStart ==
    /\ pc = "loop"
    /\ idx <= Len(plan)
    /\ LET task_id == plan[idx] IN
       IF ~Has(tasks, task_id)
       THEN /\ idx' = idx + 1
            /\ UNCHANGED <<tasks, pc, log>>
       ELSE LET r == start_task(tasks, task_id) IN
            /\ tasks' = r.tasks
            /\ log' = Append(log, [ev |-> "start_task", id |-> task_id, ret |-> r.ret])
            /\ IF r.ret THEN pc' = "run" /\ idx' = idx
                        ELSE pc' = "loop" /\ idx' = idx + 1
    /\ UNCHANGED <<task_counter, clock, clientVars, plan, success, execResult, result, builds,
                   progress_callbacks, code_context>>
    /\ UNCHANGED memoryVars

\* success = await self._execute_task(task)
ExecRun ==
    /\ pc = "run"
    /\ \E envs \in AttemptEnvironments(Get(tasks, plan[idx]), progress_callbacks, code_context) :
        LET task == Get(tasks, plan[idx]) IN
        \E r \in {_execute_task(task, envs, progress_callbacks, code_context)} :
           /\ code_context' = r.code_context
           /\ IF r.raised
              THEN \* the exception leaves _execute_development_plan and is
                   \* caught by build_application
                   /\ result' = Some(BuildReturn(BuildCaught(r.value)))
                   /\ pc' = "idle"
                   /\ log' = log \o r.events
                   /\ UNCHANGED success
              ELSE /\ success' = r.value
                   /\ pc' = "settle"
                   /\ log' = (log \o r.events) \o
                             <<[ev |-> "_execute_task", id |-> task.id,
                                calls |-> r.calls,
                                raised |-> r.handler_raised,
                                value |-> r.value,
                                unobserved |-> IF progress_callbacks = <<>> THEN r.value
                                               ELSE _execute_task(task, envs, <<>>, code_context).value,
                                tests |-> r.tests,
                                fixes |-> r.fixes]>>
                   /\ UNCHANGED result
    /\ UNCHANGED <<plannerVars, clientVars, plan, idx, execResult, builds, progress_callbacks>>
    /\ UNCHANGED memoryVars

\* the tail of one turn of the loop going on to the next task without
\* complete_task when the task succeeded
ExecSettle_LeavesInProgress ==
    /\ pc = "settle"
    /\ LET task_id == plan[idx]
           task == Get(tasks, task_id)
       IN IF Truthy(success)
          THEN /\ idx' = idx + 1
               /\ pc' = "loop"
               /\ UNCHANGED <<tasks, clock, log, execResult>>
          ELSE LET f == fail_task(tasks, task_id, "Task execution failed") IN
               /\ tasks' = f.tasks
               /\ clock' = clock
               /\ log' = Append(log, [ev |-> "fail_task", id |-> task_id, ret |-> f.ret])
               /\ IF IsCritical(task.priority)
                  THEN /\ execResult' = Some(FALSE)
                       /\ pc' = "summary"
                       /\ idx' = idx
                  ELSE /\ idx' = idx + 1
                       /\ pc' = "loop"
                       /\ UNCHANGED execResult
    /\ UNCHANGED <<task_counter, clientVars, plan, success, result, builds,
                   progress_callbacks, code_context>>
    /\ UNCHANGED memoryVars

\* complete_task or fail_task, and the stop after a failed HIGH or
\* CRITICAL task
ExecSettle ==
    /\ pc = "settle"
    /\ LET task_id == plan[idx]
           task == Get(tasks, task_id)
       IN IF Truthy(success)
          THEN LET c == complete_task(tasks, clock, task_id, None) IN
               /\ tasks' = c.tasks
               /\ clock' = c.clock
               /\ log' = Append(log, [ev |-> "complete_task", id |-> task_id, ret |-> c.ret])
               /\ idx' = idx + 1
               /\ pc' = "loop"
               /\ UNCHANGED execResult
          ELSE LET f == fail_task(tasks, task_id, "Task execution failed") IN
               /\ tasks' = f.tasks
               /\ clock' = clock
               /\ log' = Append(log, [ev |-> "fail_task", id |-> task_id, ret |-> f.ret])
               /\ IF IsCritical(task.priority)
                  THEN /\ execResult' = Some(FALSE)
                       /\ pc' = "summary"
                       /\ idx' = idx
                  ELSE /\ idx' = idx + 1
                       /\ pc' = "loop"
                       /\ UNCHANGED execResult
    /\ UNCHANGED <<task_counter, clientVars, plan, success, result, builds,
                   progress_callbacks, code_context>>
    /\ UNCHANGED memoryVars

\* after the loop: the overall result from get_task_progress
ExecEnd ==
    /\ pc = "loop"
    /\ idx > Len(plan)
    /\ LET progress == get_task_progress(tasks) IN
       IF "failed" \in DOMAIN progress
       THEN /\ execResult' = Some(OverallSuccess(progress))
            /\ pc' = "summary"
            /\ UNCHANGED result
       ELSE \* progress["failed"] raises KeyError
            /\ result' = Some(BuildReturn(BuildCaught("KeyError")))
            /\ pc' = "idle"
            /\ UNCHANGED execResult
    /\ UNCHANGED <<plannerVars, clientVars, plan, idx, success, log, builds,
                   progress_callbacks, code_context>>
    /\ UNCHANGED memoryVars

\* _generate_project_summary and the return of build_application
BuildSummary ==
    /\ pc = "summary"
    /\ \E llm \in LlmOutcomes :
        result' = IF llm = "raise"
                  THEN Some(BuildReturn(BuildCaught("GenerationFailure")))
                  ELSE Some(BuildReturn(Returned(
                           BuildResult(execResult[1], None,
                                       Some(get_task_progress(tasks))))))
    /\ pc' = "idle"
    /\ UNCHANGED <<plannerVars, clientVars, plan, idx, success, execResult, log, builds,
                   progress_callbacks, code_context>>
    /\ UNCHANGED memoryVars

----------------------------------------------------------------------------
(* memory_manager.py: MemoryManager *)

\* the characters of the texts the store is given
Text(s) ==
    CASE s = "" -> <<>>
      [] s = "app" -> <<"a", "p", "p">>
      [] s = "ASK" -> <<"A", "S", "K">>
      [] s = "api" -> <<"a", "p", "i">>
      [] s = "FLASK task" -> <<"F", "L", "A", "S", "K", " ", "t", "a", "s", "k">>
      [] s = "Flask app" -> <<"F", "l", "a", "s", "k", " ", "a", "p", "p">>
      [] s = "import task" -> <<"i", "m", "p", "o", "r", "t", " ", "t", "a", "s", "k">>
      [] s = "REST api" -> <<"R", "E", "S", "T", " ", "a", "p", "i">>
      [] s = "api auth api" -> <<"a", "p", "i", " ", "a", "u", "t", "h", " ", "a", "p", "i">>
      [] s = "rest api auth" -> <<"r", "e", "s", "t", " ", "a", "p", "i", " ", "a", "u", "t", "h">>
      [] s = "Auth  REST" -> <<"A", "u", "t", "h", " ", " ", "R", "E", "S", "T">>
      [] s = "pi" -> <<"p", "i">>

\* str.split(): the maximal runs of non-blank characters from place i on,
\* word being the run read so far
RECURSIVE SplitFrom(_, _, _, _)
SplitFrom(cs, i, word, acc) ==
    LET closed == IF word = <<>> THEN acc ELSE Append(acc, word) IN
    IF i > Len(cs) THEN closed
    ELSE IF cs[i] = " " THEN SplitFrom(cs, i + 1, <<>>, closed)
    ELSE SplitFrom(cs, i + 1, Append(word, cs[i]), acc)

\* s.lower().split()
LowerSplit(s) == SplitFrom(Lower(Text(s)), 1, <<>>, <<>>)

\* a Python value put into the store as metadata or state: a str, a list,
\* a tuple or a set
Py(type, value) == [type |-> type, value |-> value]

\* json.dump encodes str, list and tuple, the tuple as an array; for a set
\* the encoder raises TypeError
Serializable(v) == v.type \in {"str", "list", "tuple"}

\* what json.load reads back from what json.dump wrote for v: an array
\* comes back as a list
Decoded(v) == IF v.type = "tuple" THEN Py("list", v.value) ELSE v

\* add_conversation: metadata or {}
add_conversation(history, clk, role, content, metadata) ==
    Append(history, [timestamp |-> clk, role |-> role, content |-> content,
                     metadata |-> IF metadata = None THEN EmptyDict ELSE metadata[1]])

\* update_project_state
update_project_state(state, clk, key, value) ==
    DictSet(state, key, [value |-> value, last_updated |-> clk])

\* add_learning
add_learning(learning, clk, scenario, solution, ok) ==
    DictSet(learning, scenario,
            Append(IF scenario \in DOMAIN learning THEN learning[scenario] ELSE <<>>,
                   [solution |-> solution, success |-> ok, timestamp |-> clk]))

\* the memory_data of save_memory
MemoryData(history, ctx, state, learning) ==
    [conversation_history |-> history, code_context |-> ctx,
     project_state |-> state, learning_memory |-> learning]

\* json.dump(memory_data) goes through: every value in it can be encoded
Dumpable(data) ==
    /\ \A i \in 1..Len(data.conversation_history) :
          \A k \in DOMAIN data.conversation_history[i].metadata :
              Serializable(data.conversation_history[i].metadata[k])
    /\ \A k \in DOMAIN data.project_state : Serializable(data.project_state[k].value)

\* the document json.load reads from what json.dump wrote for data
Document(data) ==
    [conversation_history |->
         [i \in 1..Len(data.conversation_history) |->
             [data.conversation_history[i] EXCEPT
                 !.metadata = [k \in DOMAIN @ |-> Decoded(@[k])]]],
     code_context |-> data.code_context,
     project_state |->
         [k \in DOMAIN data.project_state |->
             [data.project_state[k] EXCEPT !.value = Decoded(@)]],
     learning_memory |-> data.learning_memory]

\* memory.json: absent, a document, or text json.load cannot parse
NoFile == [kind |-> "absent"]
FileOf(data) == [kind |-> "document", data |-> Document(data)]
Corrupt == [kind |-> "corrupt"]

\* what the disk does to a call: "ok", or an OSError on open, or an OSError
\* while the file is written or read
IoOutcomes == {"ok", "open_fails", "io_fails"}

\* the body of the try of save_memory: open(memory_file, 'w') truncates
\* the file, json.dump then writes it piece by piece; an exception midway
\* leaves a part of the document
SaveTried(data, file, io) ==
    IF io = "open_fails" THEN [raised |-> TRUE, file |-> file]
    ELSE IF io = "io_fails" \/ ~Dumpable(data) THEN [raised |-> TRUE, file |-> Corrupt]
    ELSE [raised |-> FALSE, file |-> FileOf(data)]

\* save_memory: except Exception logs and returns
save_memory(data, file, io) ==
    [raised |-> FALSE, saved |-> ~SaveTried(data, file, io).raised,
     file |-> SaveTried(data, file, io).file]

\* _load_memory emptying the conversation history before it reads the file
_load_memory_ClearsFirst(data, file, io) ==
    IF file.kind = "absent" THEN [raised |-> FALSE, loaded |-> FALSE, data |-> data]
    ELSE IF io # "ok" \/ file.kind = "corrupt"
    THEN [raised |-> FALSE, loaded |-> FALSE,
          data |-> [data EXCEPT !.conversation_history = <<>>]]
    ELSE [raised |-> FALSE, loaded |-> TRUE, data |-> file.data]

\* _load_memory: nothing when the file does not exist; the four fields are
\* assigned after json.load has returned; except Exception logs and returns
_load_memory(data, file, io) ==
    IF file.kind = "absent" THEN [raised |-> FALSE, loaded |-> FALSE, data |-> data]
    ELSE IF io # "ok" \/ file.kind = "corrupt"
    THEN [raised |-> FALSE, loaded |-> FALSE, data |-> data]
    ELSE [raised |-> FALSE, loaded |-> TRUE, data |-> file.data]

\* the slice history[-n:] for n >= 0: Python reads -0 as 0, the whole list
LastEntries(history, n) ==
    IF n = 0 \/ n >= Len(history) THEN history
    ELSE SubSeq(history, Len(history) - n + 1, Len(history))

\* any(keyword in context["content"].lower() for keyword in query.lower().split())
Relevant(entry, query) ==
    \E k \in 1..Len(LowerSplit(query)) :
        Contains(Lower(Text(entry.content)), LowerSplit(query)[k])

\* get_relevant_context: the list relevant_contexts that is joined into the
\* text returned, a block per matching file in the order of the artifact
\* map and, when the slice of the history is not empty, one block of its
\* "role: content" lines
get_relevant_context(ctx, history, query, max_entries) ==
    LET files == SelectSeq(ctx, LAMBDA c : Relevant(c.entry, query))
        recent == LastEntries(history, max_entries)
    IN [i \in 1..Len(files) |->
            [block |-> "File", path |-> files[i].path, content |-> files[i].entry.content]]
       \o (IF recent = <<>> THEN <<>>
           ELSE <<[block |-> "Recent conversations",
                   lines |-> [i \in 1..Len(recent) |->
                                 [role |-> recent[i].role, content |-> recent[i].content]]]>>)

\* MemoryManager.__init__ before _load_memory
MemoryInit ==
    /\ conversation_history = <<>>
    /\ project_state = EmptyDict
    /\ learning_memory = EmptyDict
    /\ semantic_index = <<>>
    /\ code_dependencies = EmptyDict
    /\ performance_metrics = EmptyDict
    /\ error_patterns = <<>>
    /\ success_patterns = <<>>
    /\ memory_file = NoFile

\* what callers hand to add_conversation
ConversationInputs ==
    {[role |-> "user", content |-> "build a todo app", metadata |-> None],
     [role |-> "user", content |-> "use flask",
      metadata |-> Some(DictSet(EmptyDict, "source", Py("str", "cli")))],
     [role |-> "assistant", content |-> "wrote main.py",
      metadata |-> Some(DictSet(EmptyDict, "files", Py("tuple", <<"main.py">>)))],
     [role |-> "assistant", content |-> "tested main.py",
      metadata |-> Some(DictSet(EmptyDict, "seen", Py("set", {"main.py"})))]}

\* the paths of the artifacts, and what is written to them
ArtifactPaths == {<<"main.py", "app.py", "models.py">>[i] : i \in 1..Min(MaxArtifacts, 3)}
ArtifactContents == {"Flask app", "import task"}

\* the queries put to get_relevant_context
Queries == {"", "app", "ASK", "api", "FLASK task"}

AddConversation ==
    /\ calls.total < MaxStoreCalls
    /\ Len(conversation_history) < MaxConversations
    /\ \E in \in ConversationInputs :
          conversation_history' =
              add_conversation(conversation_history, _get_timestamp(clock),
                               in.role, in.content, in.metadata)
    /\ clock' = _get_timestamp(clock)
    /\ last' = [op |-> "add_conversation"]
    /\ calls' = Count(calls, "add_conversation")
    /\ UNCHANGED <<tasks, task_counter, pc, plan, idx, success, execResult, result,
                   log, builds, progress_callbacks, code_context,
                   project_state, learning_memory, semantic_index, code_dependencies,
                   performance_metrics, error_patterns, success_patterns, memory_file>>

AddCodeContext ==
    /\ calls.total < MaxStoreCalls
    /\ \E path \in ArtifactPaths, content \in ArtifactContents :
          code_context' = add_code_context(code_context, path, content, "python")
    /\ last' = [op |-> "add_code_context"]
    /\ calls' = Count(calls, "add_code_context")
    /\ UNCHANGED <<plannerVars, pc, plan, idx, success, execResult, result,
                   log, builds, progress_callbacks, memoryVars>>

UpdateProjectState ==
    /\ calls.total < MaxStoreCalls
    /\ "phase" \notin DOMAIN project_state
    /\ project_state' = update_project_state(project_state, _get_timestamp(clock),
                                             "phase", Py("str", "planning"))
    /\ last' = [op |-> "update_project_state"]
    /\ calls' = Count(calls, "update_project_state")
    /\ UNCHANGED <<plannerVars, pc, plan, idx, success, execResult, result,
                   log, builds, progress_callbacks, code_context,
                   conversation_history, learning_memory, semantic_index, code_dependencies,
                   performance_metrics, error_patterns, success_patterns, memory_file>>

AddLearning ==
    /\ calls.total < MaxStoreCalls
    /\ "timeout" \notin DOMAIN learning_memory
    /\ learning_memory' = add_learning(learning_memory, _get_timestamp(clock),
                                       "timeout", "retry", TRUE)
    /\ last' = [op |-> "add_learning"]
    /\ calls' = Count(calls, "add_learning")
    /\ UNCHANGED <<plannerVars, pc, plan, idx, success, execResult, result,
                   log, builds, progress_callbacks, code_context,
                   conversation_history, project_state, semantic_index, code_dependencies,
                   performance_metrics, error_patterns, success_patterns, memory_file>>

\* the four fields save_memory writes and _load_memory assigns
Stored == MemoryData(conversation_history, code_context, project_state, learning_memory)

SaveMemory ==
    /\ calls.total < MaxStoreCalls
    /\ \E io \in IoOutcomes :
          \E r \in {save_memory(Stored, memory_file, io)} :
             /\ memory_file' = r.file
             /\ last' = [op |-> "save_memory", raised |-> r.raised, saved |-> r.saved]
    /\ calls' = Count(calls, "save_memory")
    /\ UNCHANGED <<plannerVars, pc, plan, idx, success, execResult, result,
                   log, builds, progress_callbacks, code_context,
                   conversation_history, project_state, learning_memory, semantic_index,
                   code_dependencies, performance_metrics, error_patterns, success_patterns>>

\* _load_memory called on the store as it is
LoadMemory ==
    /\ calls.total < MaxStoreCalls
    /\ \E io \in IoOutcomes \ {"open_fails"} :
          \E r \in {_load_memory(Stored, memory_file, io)} :
             /\ conversation_history' = r.data.conversation_history
             /\ code_context' = r.data.code_context
             /\ project_state' = r.data.project_state
             /\ learning_memory' = r.data.learning_memory
             /\ last' = [op |-> "_load_memory", raised |-> r.raised, loaded |-> r.loaded]
    /\ calls' = Count(calls, "_load_memory")
    /\ UNCHANGED <<plannerVars, pc, plan, idx, success, execResult, result,
                   log, builds, progress_callbacks, semantic_index, code_dependencies,
                   performance_metrics, error_patterns, success_patterns, memory_file>>

\* MemoryManager(project_name) for the same project: a fresh store, which
\* loads the file
NewMemoryManager ==
    /\ calls.total < MaxStoreCalls
    /\ \E io \in IoOutcomes \ {"open_fails"} :
          \E r \in {_load_memory(MemoryData(<<>>, <<>>, EmptyDict, EmptyDict), memory_file, io)} :
             /\ conversation_history' = r.data.conversation_history
             /\ code_context' = r.data.code_context
             /\ project_state' = r.data.project_state
             /\ learning_memory' = r.data.learning_memory
             /\ last' = [op |-> "__init__", raised |-> r.raised, loaded |-> r.loaded]
    /\ semantic_index' = <<>>
    /\ code_dependencies' = EmptyDict
    /\ performance_metrics' = EmptyDict
    /\ error_patterns' = <<>>
    /\ success_patterns' = <<>>
    /\ calls' = Count(calls, "__init__")
    /\ UNCHANGED <<plannerVars, pc, plan, idx, success, execResult, result,
                   log, builds, progress_callbacks, memory_file>>

\* context["content"] for a stored value: a dict with that key gives its
\* content, a str raises TypeError (a str is indexed by integers only)
Subscriptable(entry) == "content" \in DOMAIN entry

\* get_relevant_context raises when the loop over the artifact map comes to
\* a value that is not a dict; with a query without words the generator of
\* any() yields nothing and no value is looked into
ContextRaises(ctx, query) ==
    /\ LowerSplit(query) # <<>>
    /\ \E i \in 1..Len(ctx) : ~Subscriptable(ctx[i].entry)

GetRelevantContext ==
    /\ \E query \in Queries, max_entries \in 0..MaxEntries :
          last' = [op |-> "get_relevant_context", query |-> query, max_entries |-> max_entries,
                   raised |-> ContextRaises(code_context, query),
                   ret |-> IF ContextRaises(code_context, query) THEN <<>>
                           ELSE get_relevant_context(code_context, conversation_history,
                                                     query, max_entries)]
    /\ UNCHANGED <<plannerVars, calls, engineVars>>

\* what the tester answers to test_code, and the fixed code that
\* fix_code_issues returned: a str
TesterAnswers == <<Raised("NameError"), Returned([success |-> TRUE]), Returned([success |-> FALSE])>>
FixedCodes == {Py("str", "Flask app")}

\* The tail of one turn of the loop of _execute_testing_task, for a tracked
\* file whose first test failed and for which a fix came back: the re-test
\* of the fixed code and, when it passes, the replacement of the stored
\* value.
RetestFixedCode ==
    /\ \E i \in 1..Len(code_context), fixed \in FixedCodes, k \in 1..Len(TesterAnswers) :
          /\ Subscriptable(code_context[i].entry)
          /\ code_context' = Retested(TesterAnswers[k], fixed, code_context[i].path,
                                      code_context).code_context
          /\ last' = [op |-> "_execute_testing_task", path |-> code_context[i].path,
                      replaced |-> code_context' # code_context]
    /\ UNCHANGED <<plannerVars, calls, pc, plan, idx, success, execResult, result,
                   log, builds, progress_callbacks, memoryVars>>

\* semantic_index is a dict of lists: a sequence of [key, items] in the
\* order the keys were first used.  index[key].append(item)
IndexAppend(index, key, item) ==
    IF \E i \in 1..Len(index) : index[i].key = key
    THEN [i \in 1..Len(index) |->
             IF index[i].key = key THEN [index[i] EXCEPT !.items = Append(@, item)]
             ELSE index[i]]
    ELSE Append(index, [key |-> key, items |-> <<item>>])

\* for tag in (tags or []): self.semantic_index[f"tag:{tag}"].append(key)
RECURSIVE IndexTags(_, _, _, _)
IndexTags(index, key, tags, i) ==
    IF i > Len(tags) THEN index
    ELSE IndexTags(IndexAppend(index, "tag:" \o tags[i], [kind |-> "str", value |-> key]),
                   key, tags, i + 1)

\* add_semantic_context
add_semantic_context(index, clk, key, context, tags) ==
    IndexTags(IndexAppend(index, key,
                          [kind |-> "dict", content |-> context, hash |-> <<"md5", context>>,
                           timestamp |-> clk, tags |-> IF tags = None THEN <<>> ELSE tags[1]]),
              key, IF tags = None THEN <<>> ELSE tags[1], 1)

\* the tags callers use
Tags == {"api"}

\* the loops of get_semantic_context from the key at place i on: keys that
\* start with "tag:" are passed over, and so are items that are no dict or
\* score 0
RECURSIVE Scored(_, _, _)
Scored(index, i, query) ==
    IF i > Len(index) THEN <<>>
    ELSE LET found == SelectSeq(index[i].items,
                          LAMBDA item : /\ item.kind = "dict"
                                        /\ Range(LowerSplit(query))
                                              \cap Range(LowerSplit(item.content)) # {})
         IN (IF index[i].key \in {"tag:" \o t : t \in Tags} THEN <<>>
             ELSE [j \in 1..Len(found) |->
                      [key |-> index[i].key, content |-> found[j].content,
                       score |-> Cardinality(Range(LowerSplit(query))
                                                \cap Range(LowerSplit(found[j].content))),
                       timestamp |-> found[j].timestamp, tags |-> found[j].tags]])
            \o Scored(index, i + 1, query)

\* scored_contexts.sort(key=score, reverse=True): a stable sort, entries of
\* equal score stay in their order
RECURSIVE ByScore(_, _)
ByScore(scored, score) ==
    IF score = 0 THEN <<>>
    ELSE SelectSeq(scored, LAMBDA c : c.score = score) \o ByScore(scored, score - 1)

\* get_semantic_context, for limit >= 0
get_semantic_context(index, query, limit) ==
    LET sorted == ByScore(Scored(index, 1, query), Len(LowerSplit(query)))
    IN SubSeq(sorted, 1, Min(limit, Len(sorted)))

\* what callers hand to add_semantic_context and get_semantic_context
SemanticKeys == {"design", "notes", "tag:api"}
SemanticTexts == {"REST api", "api auth api", "api"}
SemanticQueries == {"rest api auth", "Auth  REST", "pi", ""}

AddSemanticContext ==
    /\ calls.total < MaxSemantic
    /\ \E key \in SemanticKeys, context \in SemanticTexts,
          tags \in {None} \cup {Some(<<t>>) : t \in Tags} :
          semantic_index' = add_semantic_context(semantic_index, _get_timestamp(clock),
                                                 key, context, tags)
    /\ clock' = _get_timestamp(clock)
    /\ last' = [op |-> "add_semantic_context"]
    /\ calls' = Count(calls, "add_semantic_context")
    /\ UNCHANGED <<tasks, task_counter, pc, plan, idx, success, execResult, result,
                   log, builds, progress_callbacks, code_context,
                   conversation_history, project_state, learning_memory, code_dependencies,
                   performance_metrics, error_patterns, success_patterns, memory_file>>

GetSemanticContext ==
    /\ \E query \in SemanticQueries, limit \in 0..MaxLimit :
          last' = [op |-> "get_semantic_context", query |-> query, limit |-> limit,
                   ret |-> get_semantic_context(semantic_index, query, limit)]
    /\ UNCHANGED <<plannerVars, calls, engineVars>>

\* track_code_dependency: self.code_dependencies[file_path].update(dependencies)
\* on the defaultdict of sets, a function from the paths used to sets
track_code_dependency(deps, file_path, dependencies) ==
    DictSet(deps, file_path,
            (IF file_path \in DOMAIN deps THEN deps[file_path] ELSE {}) \cup Range(dependencies))

\* get_related_files without the reverse dependencies
get_related_files_ForwardOnly(deps, file_path) ==
    IF file_path \in DOMAIN deps THEN deps[file_path] ELSE {}

\* get_related_files: the direct dependencies, read with .get, and the
\* paths that depend on this one
get_related_files(deps, file_path) ==
    (IF file_path \in DOMAIN deps THEN deps[file_path] ELSE {})
        \cup {path \in DOMAIN deps : file_path \in deps[path]}

\* the paths callers name, and the lists of dependencies they declare
DepPaths == {"main.py", "models.py", "utils.py"}
DependencyLists ==
    {<<>>} \cup {<<a>> : a \in DepPaths}
           \cup {pair \in {<<a, b>> : a \in DepPaths, b \in DepPaths} : pair[1] # pair[2]}

TrackCodeDependency ==
    /\ \E file_path \in DepPaths, dependencies \in DependencyLists :
          /\ code_dependencies' = track_code_dependency(code_dependencies, file_path, dependencies)
          /\ last' = [op |-> "track_code_dependency", file_path |-> file_path,
                      dependencies |-> dependencies]
    /\ UNCHANGED <<plannerVars, calls, pc, plan, idx, success, execResult, result,
                   log, builds, progress_callbacks, code_context,
                   conversation_history, project_state, learning_memory, semantic_index,
                   performance_metrics, error_patterns, success_patterns, memory_file>>

GetRelatedFiles ==
    /\ \E file_path \in DepPaths :
          last' = [op |-> "get_related_files", file_path |-> file_path,
                   ret |-> get_related_files(code_dependencies, file_path)]
    /\ UNCHANGED <<plannerVars, calls, engineVars>>

\* record_performance_metric counting every call as a success
record_performance_metric_CountsSuccessOnly(metrics, errors, successes, clk, operation, duration, ok, metadata) ==
    LET old == IF operation \in DOMAIN metrics THEN metrics[operation]
               ELSE [total_calls |-> 0, total_duration |-> 0, success_count |-> 0,
                     failure_count |-> 0, avg_duration |-> <<0, 1>>, success_rate |-> <<0, 1>>]
        new == [total_calls |-> old.total_calls + 1,
                total_duration |-> old.total_duration + duration,
                success_count |-> old.success_count + 1,
                failure_count |-> old.failure_count,
                avg_duration |-> <<old.total_duration + duration, old.total_calls + 1>>,
                success_rate |-> <<old.success_count + 1, old.total_calls + 1>>]
        record == [timestamp |-> clk, operation |-> operation, duration |-> duration,
                   success |-> ok, metadata |-> IF metadata = None THEN EmptyDict ELSE metadata[1]]
    IN [performance_metrics |-> DictSet(metrics, operation, new),
        success_patterns |-> IF ok THEN Append(successes, record) ELSE successes,
        error_patterns |-> IF ok THEN errors ELSE Append(errors, record)]

\* record_performance_metric; avg_duration and success_rate are quotients,
\* kept as <<numerator, denominator>>
record_performance_metric(metrics, errors, successes, clk, operation, duration, ok, metadata) ==
    LET old == IF operation \in DOMAIN metrics THEN metrics[operation]
               ELSE [total_calls |-> 0, total_duration |-> 0, success_count |-> 0,
                     failure_count |-> 0, avg_duration |-> <<0, 1>>, success_rate |-> <<0, 1>>]
        new == [total_calls |-> old.total_calls + 1,
                total_duration |-> old.total_duration + duration,
                success_count |-> IF ok THEN old.success_count + 1 ELSE old.success_count,
                failure_count |-> IF ok THEN old.failure_count ELSE old.failure_count + 1,
                avg_duration |-> <<old.total_duration + duration, old.total_calls + 1>>,
                success_rate |-> <<IF ok THEN old.success_count + 1 ELSE old.success_count,
                                   old.total_calls + 1>>]
        record == [timestamp |-> clk, operation |-> operation, duration |-> duration,
                   success |-> ok, metadata |-> IF metadata = None THEN EmptyDict ELSE metadata[1]]
    IN [performance_metrics |-> DictSet(metrics, operation, new),
        success_patterns |-> IF ok THEN Append(successes, record) ELSE successes,
        error_patterns |-> IF ok THEN errors ELSE Append(errors, record)]

\* the operations measured, and their durations
Operations == {"code_generation", "testing"}
Durations == {1, 2}

\* log keeps the calls made, in order
RecordPerformanceMetric ==
    /\ Len(log) < MaxRecords
    /\ \E operation \in Operations, duration \in Durations, ok \in BOOLEAN :
          \E r \in {record_performance_metric(performance_metrics, error_patterns,
                                              success_patterns, _get_timestamp(clock),
                                              operation, duration, ok, None)} :
             /\ performance_metrics' = r.performance_metrics
             /\ error_patterns' = r.error_patterns
             /\ success_patterns' = r.success_patterns
             /\ log' = Append(log, [ev |-> "record_performance_metric",
                                    timestamp |-> _get_timestamp(clock),
                                    operation |-> operation, success |-> ok])
    /\ clock' = _get_timestamp(clock)
    /\ UNCHANGED <<tasks, task_counter, clientVars, pc, plan, idx, success, execResult, result,
                   builds, progress_callbacks, code_context,
                   conversation_history, project_state, learning_memory, semantic_index,
                   code_dependencies, memory_file>>

----------------------------------------------------------------------------
(* Specifications *)

Init == PlannerInit /\ EngineInit /\ MemoryInit

PlannerNext ==
    \/ CreateTask
    \/ PlanFromRequirement
    \/ StartTask
    \/ CompleteTask
    \/ FailTask
    \/ ClearCompletedTasks

\* the planner under any client
Spec == Init /\ [][PlannerNext]_vars

EngineNext ==
    \/ AddProgressCallback
    \/ BuildApplication
    \/ ExecuteEmptyPlan
    \/ ExecStart
    \/ ExecRun
    \/ ExecSettle
    \/ ExecEnd
    \/ BuildSummary

\* the engine building applications
SpecExec == Init /\ [][EngineNext]_vars

RetryNext == CallRetried

DispatchNext == DispatchTask

\* _execute_task on tasks of any title
SpecDispatch == Init /\ [][DispatchNext]_vars

\* a retried operation under any policy and any run of failures
SpecRetry == Init /\ [][RetryNext]_vars

StoreNext ==
    \/ AddConversation
    \/ AddCodeContext
    \/ UpdateProjectState
    \/ AddLearning
    \/ SaveMemory
    \/ LoadMemory
    \/ NewMemoryManager

\* the store filled, saved and loaded
SpecStore == Init /\ [][StoreNext]_vars

ContextNext ==
    \/ AddConversation
    \/ AddCodeContext
    \/ GetRelevantContext

\* the store filled and asked for context
SpecContext == Init /\ [][ContextNext]_vars

SemanticNext ==
    \/ AddSemanticContext
    \/ GetSemanticContext

ArtifactNext ==
    \/ AddCodeContext
    \/ RetestFixedCode
    \/ GetRelevantContext

\* the artifact map written by the store and by the fix loop, and read
SpecArtifacts == Init /\ [][ArtifactNext]_vars

\* the semantic index filled and queried
SpecSemantic == Init /\ [][SemanticNext]_vars

DependencyNext ==
    \/ TrackCodeDependency
    \/ GetRelatedFiles

\* dependencies declared and related files asked for
SpecDependencies == Init /\ [][DependencyNext]_vars

MetricsNext == RecordPerformanceMetric

\* performance metrics recorded
SpecMetrics == Init /\ [][MetricsNext]_vars

----------------------------------------------------------------------------
(* Properties of the planner, checked under Spec *)

\* every id in the dependencies of t names a stored task that is COMPLETED
DependenciesCompleted(ts, t) ==
    \A d \in Range(t.dependencies) : Has(ts, d) /\ Get(ts, d).status = COMPLETED

Startable(ts, id) ==
    /\ Has(ts, id)
    /\ Get(ts, id).status = PENDING
    /\ DependenciesCompleted(ts, Get(ts, id))

\* C1: start_task(T) returns true iff T is stored, PENDING, and each of its
\* dependencies names a stored COMPLETED task; then T, and only T, changes,
\* to IN_PROGRESS; otherwise (an unknown id included) it returns false and
\* no task changes.
C1_StartTaskContract ==
    [][last'.op = "start_task" =>
        LET id == last'.id[1] IN
        /\ last'.ret = Startable(tasks, id)
        /\ Startable(tasks, id) =>
              tasks' = SetTask(tasks, id, [Get(tasks, id) EXCEPT !.status = IN_PROGRESS])
        /\ ~Startable(tasks, id) => tasks' = tasks]_vars

\* a task with a dependency has just been started
C1_Witness ==
    /\ last.op = "start_task"
    /\ last.ret
    /\ Get(tasks, last.id[1]).dependencies # <<>>
    /\ Get(tasks, last.id[1]).status = IN_PROGRESS

\* C2 (as claimed): a task's status changes only PENDING -> IN_PROGRESS,
\* IN_PROGRESS -> COMPLETED or IN_PROGRESS -> FAILED, so COMPLETED and
\* FAILED are never left, and no task is BLOCKED.
C2_StatusMachine ==
    [][\A i \in 1..Len(tasks) :
        LET t == tasks[i] IN
        Has(tasks', t.id) =>
            LET before == t.status
                after == Get(tasks', t.id).status
            IN /\ after # BLOCKED
               /\ \/ after = before
                  \/ before = PENDING /\ after = IN_PROGRESS
                  \/ before = IN_PROGRESS /\ after \in {COMPLETED, FAILED}]_vars

\* C3: complete_task(T) returns true only for an IN_PROGRESS task, which it
\* makes COMPLETED with completed_at set to the time of the call; called on
\* a task completed before, it returns false and leaves the task's status,
\* actual_time and completed_at as they were.
C3_CompleteTaskOnce ==
    [][last'.op = "complete_task" =>
        LET id == last'.id[1] IN
        /\ last'.ret =>
              /\ Has(tasks, id)
              /\ Get(tasks, id).status = IN_PROGRESS
              /\ Get(tasks', id).status = COMPLETED
              /\ clock' > clock
              /\ Get(tasks', id).completed_at = Some(clock')
        /\ (Has(tasks, id) /\ Get(tasks, id).completed_at # None) =>
              /\ ~last'.ret
              /\ Get(tasks', id).status = Get(tasks, id).status
              /\ Get(tasks', id).actual_time = Get(tasks, id).actual_time
              /\ Get(tasks', id).completed_at = Get(tasks, id).completed_at]_vars

\* complete_task has just been refused on a task that was completed before
C3_Witness ==
    /\ last.op = "complete_task"
    /\ ~last.ret
    /\ Has(tasks, last.id[1])
    /\ Get(tasks, last.id[1]).status = COMPLETED
    /\ Get(tasks, last.id[1]).completed_at # None

\* C4 (as claimed): every id in a stored task's dependencies names a stored task.
C4_DependenciesExist ==
    \A i \in 1..Len(tasks) : \A d \in Range(tasks[i].dependencies) : Has(tasks, d)

\* C5: plan_from_requirement(r) returns 8 ids that were not stored before,
\* now storing, in this order, the eight phases with their priorities, all
\* PENDING, the first without dependencies and each other one depending on
\* exactly the one before it; nothing of this depends on r, and the tasks
\* stored before are untouched.
C5_PlanIsFixedChain ==
    [][last'.op = "plan_from_requirement" =>
        LET ids == last'.ret
            titles == <<"Requirements Analysis", "Architecture Design", "Database Design",
                        "Backend Development", "Frontend Development", "Testing",
                        "Documentation", "Deployment">>
            priorities == <<HIGH, HIGH, MEDIUM, HIGH, MEDIUM, MEDIUM, LOW, HIGH>>
        IN /\ Len(ids) = 8
           /\ \A i, j \in 1..Len(ids) : i # j => ids[i] # ids[j]
           /\ \A i \in 1..Len(ids) :
                /\ ~Has(tasks, ids[i])
                /\ Has(tasks', ids[i])
                /\ tasks'[Len(tasks) + i].id = ids[i]
                /\ Get(tasks', ids[i]).title = titles[i]
                /\ Get(tasks', ids[i]).priority = priorities[i]
                /\ Get(tasks', ids[i]).status = PENDING
                /\ Get(tasks', ids[i]).dependencies =
                       IF i = 1 THEN <<>> ELSE <<ids[i - 1]>>
           /\ Len(tasks') = Len(tasks) + 8
           /\ SubSeq(tasks', 1, Len(tasks)) = tasks]_vars

\* a plan has just been made by a planner that already stored a task, for
\* the empty requirement
C5_Witness ==
    /\ last.op = "plan_from_requirement"
    /\ Len(tasks) = 9
    /\ tasks[1].title = "Setup"
    /\ tasks[9].description[3] = ""

\* CRITICAL before HIGH before MEDIUM before LOW
Rank(priority) ==
    CASE priority = CRITICAL -> 4
      [] priority = HIGH -> 3
      [] priority = MEDIUM -> 2
      [] priority = LOW -> 1

\* where the task with this id stands in creation order
Position(ts, id) == CHOOSE i \in 1..Len(ts) : ts[i].id = id

\* C6 (as claimed): get_ready_tasks() returns, once each, the PENDING tasks
\* whose dependencies are all COMPLETED, by priority from CRITICAL down to
\* LOW, tasks of equal priority in creation order.
C6_ReadyTasksByPriority ==
    LET ready == get_ready_tasks(tasks) IN
    /\ \A i \in 1..Len(tasks) :
          (tasks[i].status = PENDING /\ DependenciesCompleted(tasks, tasks[i]))
              <=> (\E k \in 1..Len(ready) : ready[k] = tasks[i])
    /\ \A k \in 1..Len(ready) : Has(tasks, ready[k].id) /\ Get(tasks, ready[k].id) = ready[k]
    /\ \A j, k \in 1..Len(ready) :
          j < k =>
             \/ Rank(ready[j].priority) > Rank(ready[k].priority)
             \/ /\ ready[j].priority = ready[k].priority
                /\ Position(tasks, ready[j].id) < Position(tasks, ready[k].id)

----------------------------------------------------------------------------
(* Properties of the executor, checked under SpecExec *)

\* what the log of this run says about the task at place i of the plan
Logged(i, ev) == \E k \in 1..Len(log) : log[k].ev = ev /\ log[k].id = plan[i]

Touched(i) == \E k \in 1..Len(log) : log[k].ev # "_update_progress" /\ log[k].id = plan[i]

\* the run of _execute_development_plan has returned
RunReturned == execResult # None

\* C7: when the executor has failed a HIGH or CRITICAL task of the plan, it
\* has, in that very step, returned False, the build then reports no
\* success, and the executor never calls start_task for, executes,
\* completes or fails a later task of the plan: each is still PENDING.
C7_CriticalFailureStops ==
    \A i \in 1..Len(plan) :
        (Logged(i, "fail_task") /\ Get(tasks, plan[i]).priority \in {HIGH, CRITICAL}) =>
            /\ execResult = Some(FALSE)
            /\ (pc = "idle" /\ result # None) => ~result[1].success
            /\ \A j \in (i + 1)..Len(plan) :
                  ~Touched(j) /\ Get(tasks, plan[j]).status = PENDING

\* a build has returned after a HIGH task that is not the last of the plan failed
C7_Witness ==
    /\ pc = "idle"
    /\ \E i \in 1..Len(plan) :
          /\ i < Len(plan)
          /\ Logged(i, "fail_task")
          /\ Get(tasks, plan[i]).priority = HIGH
          /\ Get(tasks, plan[i]).status = FAILED

\* C8 (as claimed): when a MEDIUM or LOW task of the plan failed, the run
\* went on and every later task of the plan was executed.
C8_LowFailureContinues ==
    RunReturned =>
        \A i \in 1..Len(plan) :
            (Logged(i, "fail_task") /\ Get(tasks, plan[i]).priority \in {MEDIUM, LOW}) =>
                \A j \in (i + 1)..Len(plan) : Logged(j, "_execute_task")

\* C9: _execute_development_plan returns True exactly when no stored task
\* is FAILED and at least one is COMPLETED; for a plan without tasks it
\* returns False.
C9_OverallSuccess ==
    RunReturned =>
        /\ plan = <<>> => execResult[1] = FALSE
        /\ plan # <<>> =>
              (execResult[1] <=>
                  /\ \A i \in 1..Len(tasks) : tasks[i].status # FAILED
                  /\ \E i \in 1..Len(tasks) : tasks[i].status = COMPLETED)

\* a run over a plan of tasks has returned True
C9_Witness ==
    /\ RunReturned
    /\ plan # <<>>
    /\ execResult[1]
    /\ \A i \in 1..Len(plan) : Get(tasks, plan[i]).status = COMPLETED

\* C10 (as claimed): a task the executor marks FAILED has had its
\* execution attempted twice.
C10_FailedAfterSecondAttempt ==
    \A k \in 1..Len(log) :
        log[k].ev = "fail_task" =>
            /\ k > 1
            /\ log[k - 1].ev = "_execute_task"
            /\ log[k - 1].id = log[k].id
            /\ log[k - 1].calls = 2

----------------------------------------------------------------------------
(* Properties of retry_with_backoff, checked under SpecRetry *)

Retried == last.op = "retry_with_backoff"

AlwaysFails == \A k \in 1..last.max_retries : last.outcomes[k].raised

\* C11: with max_retries = N >= 1 around an operation that fails on every
\* attempt, the operation is called exactly N times and the error raised
\* to the caller is the error of the N-th attempt.
C11_AlwaysFailingCalledNTimes ==
    (Retried /\ last.max_retries >= 1 /\ AlwaysFails) =>
        /\ last.ret.calls = last.max_retries
        /\ last.ret.raised
        /\ last.ret.value = last.outcomes[last.max_retries].value

\* three failing attempts, the first and the last with different errors
C11_Witness ==
    /\ Retried
    /\ last.max_retries = 3
    /\ AlwaysFails
    /\ last.outcomes[1].value # last.outcomes[3].value
    /\ last.ret.calls = 3

\* C12: the delay slept before attempt k (k >= 2) is
\* min(base_delay * 2^(k-2), max_delay); nothing is slept before attempt 1
\* or after the last attempt made.
C12_BackoffDelays ==
    Retried =>
        /\ Len(last.ret.delays) = (IF last.ret.calls = 0 THEN 0 ELSE last.ret.calls - 1)
        /\ \A k \in 2..last.ret.calls :
              LET grown == last.base_delay * 2^(k - 2) IN
              last.ret.delays[k - 1] = (IF grown <= last.max_delay THEN grown ELSE last.max_delay)

\* four failing attempts under a cap the third delay reaches
C12_Witness ==
    /\ Retried
    /\ last.ret.calls = 4
    /\ last.ret.raised
    /\ last.ret.delays = <<1, 2, 3>>

----------------------------------------------------------------------------
(* Properties of the dispatch in _execute_task, checked under SpecDispatch *)

Dispatched == last.op = "_execute_task"

\* the categories in the order the dispatch tries them
CategoryOrder == <<"backend", "frontend", "database", "testing", "deployment">>

\* the category a word names, whatever its case
Names(word, category) ==
    \/ word = "BACKEND" /\ category = "backend"
    \/ word = "Frontend" /\ category = "frontend"
    \/ word = "database" /\ category = "database"
    \/ word = "Testing" /\ category = "testing"
    \/ word = "Deployment" /\ category = "deployment"

\* the category's name occurs in the title
Occurs(category, title) ==
    \E ws \in WordSeqs :
        /\ JoinStr(ws) = title
        /\ \E i \in 1..Len(ws) : Names(ws[i], category)

\* C16: the handler picked is that of the first category of the order
\* backend, frontend, database, testing, deployment whose name occurs in
\* the title in any case, and the generic one when none occurs.
C16_DispatchFirstCategory ==
    Dispatched =>
        \/ \E i \in 1..Len(CategoryOrder) :
              /\ Occurs(CategoryOrder[i], last.title)
              /\ \A j \in 1..(i - 1) : ~Occurs(CategoryOrder[j], last.title)
              /\ last.category = CategoryOrder[i]
        \/ /\ \A i \in 1..Len(CategoryOrder) : ~Occurs(CategoryOrder[i], last.title)
           /\ last.category = "generic"

\* a title that names testing before backend went to the backend handler
C16_Witness ==
    /\ Dispatched
    /\ last.title = "Testing BACKEND"
    /\ last.category = "backend"

----------------------------------------------------------------------------
(* Properties of build_application and the executor's loop, checked under  *)
(* SpecExec                                                                *)

\* a call of build_application has come back to its caller
BuildCameBack == pc = "idle" /\ builds > 0

\* C13: build_application never raises, whatever the capability, the
\* tester, the deployer and the observers do: what comes back is a result
\* with a boolean success field.
C13_BuildAlwaysReturnsResult ==
    BuildCameBack =>
        /\ result # None
        /\ "raised" \notin DOMAIN result[1]
        /\ "success" \in DOMAIN result[1]
        /\ result[1].success \in BOOLEAN

\* a build with a raising observer came back after an error of the
\* capability
C13_Witness ==
    /\ BuildCameBack
    /\ "raise" \in Range(progress_callbacks)
    /\ result[1].error = Some("GenerationFailure")
    /\ result[1].success = FALSE

\* C14 (as claimed): a result with success = false carries both an error
\* string and the snapshot of the task progress.
C14_FailureCarriesErrorAndProgress ==
    (BuildCameBack /\ ~result[1].success) =>
        /\ result[1].error # None
        /\ result[1].summary # None

\* the entries of the log that are calls of the executor on a task
TaskEntries == SelectSeq(log, LAMBDA entry : entry.ev # "_update_progress")

PlanIndex(id) == CHOOSE i \in 1..Len(plan) : plan[i] = id

\* C15: the executor takes the ids of the plan strictly in list order and
\* calls start_task before it executes a task; a task whose start_task
\* returned false is not executed, is not started a second time and stays
\* PENDING.
C15_InOrderStartBeforeExecute ==
    LET entries == TaskEntries IN
    /\ \A k \in 1..Len(entries), l \in 1..Len(entries) :
          k < l => PlanIndex(entries[k].id) <= PlanIndex(entries[l].id)
    /\ \A k \in 1..Len(entries) :
          entries[k].ev = "_execute_task" =>
              /\ k > 1
              /\ entries[k - 1] = [ev |-> "start_task", id |-> entries[k].id, ret |-> TRUE]
    /\ \A k \in 1..Len(entries) :
          entries[k].ev = "start_task" =>
              /\ \A l \in 1..Len(entries) :
                    (l # k /\ entries[l].id = entries[k].id) => entries[l].ev # "start_task"
              /\ ~entries[k].ret =>
                    /\ \A l \in 1..Len(entries) : l # k => entries[l].id # entries[k].id
                    /\ Get(tasks, entries[k].id).status = PENDING

\* a run has returned in which start_task refused a task
C15_Witness ==
    /\ RunReturned
    /\ \E k \in 1..Len(TaskEntries) :
          /\ TaskEntries[k].ev = "start_task"
          /\ ~TaskEntries[k].ret
          /\ Get(tasks, TaskEntries[k].id).status = PENDING

----------------------------------------------------------------------------
(* Properties of the Testing task and of the observers, checked under      *)
(* SpecExec                                                                *)

\* the tracked files the Testing task tests
TestedArtifacts == {i \in 1..Len(code_context) : Testable(code_context[i].path)}

\* those whose test does not come back with success
FailingArtifacts ==
    {i \in TestedArtifacts :
        LET t == Tester_test_code(code_context[i].entry, code_context[i].path)
        IN t.raised \/ ~t.value.success}

\* _execute_task has just returned for the Testing task
TestingJustRan ==
    /\ pc = "settle"
    /\ Category(Get(tasks, plan[idx]).title) = "testing"
    /\ log[Len(log)].ev = "_execute_task"

\* C17 (as claimed): the Testing task requests exactly one fix and runs
\* exactly one re-test for each tracked artifact whose test fails.
C17_OneFixOneRetestPerFailure ==
    TestingJustRan =>
        /\ log[Len(log)].fixes = Cardinality(FailingArtifacts)
        /\ log[Len(log)].tests = Cardinality(TestedArtifacts) + Cardinality(FailingArtifacts)

\* the executor has completed or failed the i-th task of the plan
Settled(i) == Logged(i, "complete_task") \/ Logged(i, "fail_task")

\* C18 (as claimed): when the Testing task could not get an artifact to
\* pass, the task ends FAILED with the failure reason in its metadata.
C18_TestingFailureMarksFailed ==
    \A i \in 1..Len(plan) :
        LET task == Get(tasks, plan[i]) IN
        (/\ Category(task.title) = "testing"
         /\ Settled(i)
         /\ \E k \in 1..Len(log) :
               log[k].ev = "_execute_task" /\ log[k].id = plan[i] /\ log[k].tests >= 1) =>
            /\ task.status = FAILED
            /\ task.metadata # None
            /\ "failure_reason" \in DOMAIN task.metadata[1]

\* the events pushed in this run
Events == SelectSeq(log, LAMBDA entry : entry.ev = "_update_progress")

\* C19: an observer that raises is isolated: every registered observer is
\* called for every event in registration order, no exception leaves
\* _update_progress, and what _execute_task returns for a task is what it
\* returns with no observer registered.
C19_ObserverFailuresIsolated ==
    /\ \A k \in 1..Len(Events) :
          /\ Events[k].delivered = [i \in 1..Len(progress_callbacks) |-> i]
          /\ ~Events[k].raised
    /\ \A k \in 1..Len(TaskEntries) :
          TaskEntries[k].ev = "_execute_task" => TaskEntries[k].value = TaskEntries[k].unobserved

\* a task was executed and settled with a raising observer registered
\* ahead of another one
C19_Witness ==
    /\ Len(progress_callbacks) = 2
    /\ progress_callbacks[1] = "raise"
    /\ \E k \in 1..Len(Events) : Events[k].status = "executing" /\ Events[k].delivered = <<1, 2>>
    /\ \E i \in 1..Len(plan) : Settled(i)

EventStatuses == {"starting", "executing", "generating", "completed", "failed"}

\* an event of the status for the task of the title was pushed
Pushed(title, status) ==
    \E k \in 1..Len(Events) : Events[k].task_name = title /\ Events[k].status = status

\* C20 (as claimed): for every task the executor executes an event is
\* pushed before it runs and one after it finishes, of status completed
\* when the task completed and failed when it failed; every event pushed
\* has one of the five statuses.
C20_EventsAroundEveryTask ==
    /\ \A k \in 1..Len(Events) : Events[k].status \in EventStatuses
    /\ \A i \in 1..Len(plan) :
          LET title == Get(tasks, plan[i]).title IN
          /\ Logged(i, "_execute_task") => Pushed(title, "executing")
          /\ Logged(i, "complete_task") => Pushed(title, "completed")
          /\ Logged(i, "fail_task") => Pushed(title, "failed")

----------------------------------------------------------------------------
(* One task at a time, checked under SpecExec *)

\* the stored tasks that are IN_PROGRESS
InProgress(ts) == {i \in 1..Len(ts) : ts[i].status = IN_PROGRESS}

Terminal == {COMPLETED, FAILED}

\* this step is the executor's call of start_task for the task at plan[idx]
StartTaskCalled ==
    /\ pc = "loop"
    /\ Len(log') = Len(log) + 1
    /\ log'[Len(log')].ev = "start_task"
    /\ log'[Len(log')].id = plan[idx]

\* start_task refused the task at place i of the plan, which was then
\* neither executed nor settled
Refused(i) ==
    /\ \E k \in 1..Len(log) :
          log[k] = [ev |-> "start_task", id |-> plan[i], ret |-> FALSE]
    /\ ~Logged(i, "_execute_task")
    /\ Get(tasks, plan[i]).status = PENDING

----------------------------------------------------------------------------
(* Properties of get_task_progress, checked under Spec *)

\* the number of stored tasks in the given status
Having(status) == Cardinality({i \in 1..Len(tasks) : tasks[i].status = status})

\* C22: for a planner that stores at least one task, get_task_progress
\* reports has_issues whenever a task is FAILED, whatever the other counts;
\* otherwise not_started when no task is COMPLETED, completed when all are,
\* and in_progress in the remaining case.
C22_OverallStatus ==
    tasks # <<>> =>
        LET progress == get_task_progress(tasks) IN
        /\ Having(FAILED) > 0 => progress.status = "has_issues"
        /\ (Having(FAILED) = 0 /\ Having(COMPLETED) = 0) =>
               progress.status = "not_started"
        /\ (Having(FAILED) = 0 /\ Having(COMPLETED) = Len(tasks)) =>
               progress.status = "completed"
        /\ (Having(FAILED) = 0 /\ Having(COMPLETED) > 0
                               /\ Having(COMPLETED) < Len(tasks)) =>
               progress.status = "in_progress"

\* the planner stores a FAILED task beside a COMPLETED one and reports
\* has_issues
C22_Witness ==
    /\ Having(FAILED) > 0
    /\ Having(COMPLETED) > 0
    /\ get_task_progress(tasks).status = "has_issues"

\* the keys of the aggregate get_task_progress returns
AggregateKeys ==
    {"total_tasks", "completed", "in_progress", "failed", "pending",
     "progress_percentage", "status"}

\* p, in hundredths of a percent, is 100 * completed / total rounded to
\* two decimals
RoundedPercentage(p, completed, total) ==
    /\ 2 * (p * total - 10000 * completed) <= total
    /\ 2 * (10000 * completed - p * total) <= total

\* C23 (as claimed): for any set of stored tasks, the empty one included,
\* get_task_progress returns the aggregate, in which total counts the
\* stored tasks, completed those that are COMPLETED, and
\* progress_percentage is 100 * completed / total rounded to two decimals.
C23_ProgressPercentage ==
    LET progress == get_task_progress(tasks) IN
    /\ DOMAIN progress = AggregateKeys
    /\ progress.total_tasks = Len(tasks)
    /\ progress.completed = Having(COMPLETED)
    /\ tasks # <<>> =>
           RoundedPercentage(progress.progress_percentage, Having(COMPLETED), Len(tasks))

----------------------------------------------------------------------------
(* Properties of the store's snapshot, checked under SpecStore *)

\* this step is the named call to the store
StoreCall(op) == calls'.total = calls.total + 1 /\ last'.op = op

\* the artifact maps a and b hold the same paths with equal content,
\* language and checksum
SameArtifacts(a, b) ==
    /\ {a[i].path : i \in 1..Len(a)} = {b[i].path : i \in 1..Len(b)}
    /\ \A i \in 1..Len(a), j \in 1..Len(b) :
          a[i].path = b[j].path =>
              /\ a[i].entry.content = b[j].entry.content
              /\ a[i].entry.language = b[j].entry.language
              /\ a[i].entry.checksum = b[j].entry.checksum

\* C24 (as claimed): when a store has been saved and a fresh store for the
\* same project then loads the snapshot, the fresh store holds an equal
\* conversation list, in the same order, and an equal artifact map.
C24_SnapshotRoundTrip ==
    [][(last.op = "save_memory" /\ last.saved /\ StoreCall("__init__") /\ last'.loaded) =>
           /\ conversation_history' = conversation_history
           /\ SameArtifacts(code_context', code_context)]_vars

\* C30: save_memory, _load_memory and the load of a fresh store return
\* normally whatever the disk and the encoder do, and a load that failed
\* leaves the conversation history, the artifact map, the project state
\* and the learning memory as they were.
C30_PersistenceFailuresSwallowed ==
    [][/\ (StoreCall("save_memory") \/ StoreCall("_load_memory") \/ StoreCall("__init__")) =>
              ~last'.raised
       /\ (StoreCall("_load_memory") /\ memory_file.kind # "absent" /\ ~last'.loaded) =>
              /\ conversation_history' = conversation_history
              /\ code_context' = code_context
              /\ project_state' = project_state
              /\ learning_memory' = learning_memory]_vars

\* a store with a conversation entry, a project state and a learning has
\* tried to load a file that cannot be parsed
C30_Witness ==
    /\ last.op = "_load_memory"
    /\ ~last.loaded
    /\ memory_file = Corrupt
    /\ conversation_history # <<>>
    /\ DOMAIN project_state # {}
    /\ DOMAIN learning_memory # {}

----------------------------------------------------------------------------
(* Properties of get_relevant_context, checked under SpecContext *)

Asked == last.op = "get_relevant_context"

\* the paths of the file blocks of the answer, and the lines of its
\* conversation block
AnsweredPaths == {last.ret[i].path : i \in {k \in 1..Len(last.ret) : last.ret[k].block = "File"}}

AnsweredLines ==
    IF \E k \in 1..Len(last.ret) : last.ret[k].block = "Recent conversations"
    THEN (CHOOSE b \in Range(last.ret) : b.block = "Recent conversations").lines
    ELSE <<>>

\* the query and the content share a whitespace-delimited token, compared
\* case-insensitively
SharesToken(query, content) == Range(LowerSplit(query)) \cap Range(LowerSplit(content)) # {}

\* C25 (as claimed): get_relevant_context includes an artifact exactly when
\* its content shares a whitespace-delimited token with the query, compared
\* case-insensitively.
C25_ArtifactIncludedIffSharedToken ==
    Asked =>
        \A i \in 1..Len(code_context) :
            code_context[i].path \in AnsweredPaths
                <=> SharesToken(last.query, code_context[i].entry.content)

\* C26 (as claimed): for every max_entries >= 0 the conversation part of
\* the answer is the last min(max_entries, M) entries of the history of
\* length M, in their order.
C26_LastEntries ==
    Asked =>
        LET M == Len(conversation_history)
            n == Min(last.max_entries, M)
        IN AnsweredLines =
               [i \in 1..n |-> [role |-> conversation_history[M - n + i].role,
                                content |-> conversation_history[M - n + i].content]]

----------------------------------------------------------------------------
(* Properties of get_semantic_context, checked under SpecSemantic *)

\* the size of the intersection of the lower-cased token sets
Overlap(query, content) ==
    Cardinality(Range(LowerSplit(query)) \cap Range(LowerSplit(content)))

\* the entries stored by add_semantic_context, with their keys
StoredEntries ==
    UNION {{[key |-> semantic_index[i].key, item |-> semantic_index[i].items[j]] :
               j \in {k \in 1..Len(semantic_index[i].items) :
                         semantic_index[i].items[k].kind = "dict"}} :
           i \in 1..Len(semantic_index)}

\* C27 (as claimed): get_semantic_context(query, limit) returns at most
\* limit entries, each with its score the size of the intersection of the
\* token sets of query and content and at least 1, in non-increasing order
\* of score, and leaves out no stored entry that scores higher than an
\* entry it returns.
C27_RankedByOverlap ==
    last.op = "get_semantic_context" =>
        /\ Len(last.ret) <= last.limit
        /\ \A i \in 1..Len(last.ret) :
              /\ last.ret[i].score = Overlap(last.query, last.ret[i].content)
              /\ last.ret[i].score >= 1
        /\ \A i \in 1..Len(last.ret), j \in 1..Len(last.ret) :
              i < j => last.ret[i].score >= last.ret[j].score
        /\ \A e \in StoredEntries, i \in 1..Len(last.ret) :
              Overlap(last.query, e.item.content) > last.ret[i].score =>
                  \E j \in 1..Len(last.ret) :
                      /\ last.ret[j].key = e.key
                      /\ last.ret[j].content = e.item.content
                      /\ last.ret[j].timestamp = e.item.timestamp

----------------------------------------------------------------------------
(* Properties of the dependency edges, checked under SpecDependencies *)

\* this step is a call of track_code_dependency / of get_related_files
Tracked == last' # last /\ last'.op = "track_code_dependency"
Queried == last' # last /\ last'.op = "get_related_files"

\* C28: with no call made no path has related files; a call of
\* track_code_dependency(p, D) adds D to the related files of p and p to
\* those of every path in D, and nothing else, so that get_related_files(p)
\* is the union of what was declared for p and of the paths that declared
\* p; the relation is symmetric; get_related_files returns it and leaves
\* the stored edges as they are.
C28_RelatedFilesUnion ==
    /\ \A x \in DepPaths : get_related_files(code_dependencies, x) = {}
    /\ [][/\ Tracked =>
                \A x \in DepPaths :
                    get_related_files(code_dependencies', x) =
                        get_related_files(code_dependencies, x)
                            \cup (IF x = last'.file_path THEN Range(last'.dependencies) ELSE {})
                            \cup (IF x \in Range(last'.dependencies)
                                  THEN {last'.file_path} ELSE {})
          /\ Queried =>
                /\ code_dependencies' = code_dependencies
                /\ last'.ret =
                       (IF last'.file_path \in DOMAIN code_dependencies
                        THEN code_dependencies[last'.file_path] ELSE {})
                       \cup {q \in DepPaths : q \in DOMAIN code_dependencies
                                              /\ last'.file_path \in code_dependencies[q]}
          /\ \A x \in DepPaths, y \in DepPaths :
                y \in get_related_files(code_dependencies', x)
                    <=> x \in get_related_files(code_dependencies', y)]_vars

\* get_related_files has returned a path that declared the asked one and
\* that the asked one did not declare
C28_Witness ==
    /\ last.op = "get_related_files"
    /\ last.file_path \notin DOMAIN code_dependencies
    /\ \E q \in last.ret : last.file_path \in code_dependencies[q]

----------------------------------------------------------------------------
(* Properties of the performance metrics, checked under SpecMetrics *)

\* the calls of record_performance_metric made for the operation
Made(operation) == {k \in 1..Len(log) : log[k].operation = operation}

\* the record of call k is in the pattern log
InLog(patterns, k) ==
    \E i \in 1..Len(patterns) :
        /\ patterns[i].timestamp = log[k].timestamp
        /\ patterns[i].operation = log[k].operation
        /\ patterns[i].success = log[k].success

\* C29: for every operation, total_calls = success_count + failure_count =
\* the number of records made for it; the success and the error log hold
\* together as many records as were made, and the record of a call is in
\* the success log exactly when it was made with success = true, and in
\* the error log otherwise.
C29_MetricCountsAddUp ==
    /\ \A operation \in Operations :
          IF Made(operation) = {} THEN operation \notin DOMAIN performance_metrics
          ELSE /\ operation \in DOMAIN performance_metrics
               /\ performance_metrics[operation].total_calls = Cardinality(Made(operation))
               /\ performance_metrics[operation].total_calls =
                      performance_metrics[operation].success_count
                          + performance_metrics[operation].failure_count
               /\ performance_metrics[operation].success_count =
                      Cardinality({k \in Made(operation) : log[k].success})
    /\ Len(success_patterns) + Len(error_patterns) = Len(log)
    /\ \A k \in 1..Len(log) :
          /\ InLog(success_patterns, k) <=> log[k].success
          /\ InLog(error_patterns, k) <=> ~log[k].success

\* an operation has been recorded with a success and with a failure
C29_Witness ==
    \E operation \in DOMAIN performance_metrics :
        /\ performance_metrics[operation].success_count > 0
        /\ performance_metrics[operation].failure_count > 0
        /\ Len(success_patterns) > 0
        /\ Len(error_patterns) > 0

----------------------------------------------------------------------------
(* Properties of clear_completed_tasks, checked under Spec *)

\* the stored tasks that are not COMPLETED, in their order
Kept(ts) == SelectSeq(ts, LAMBDA t : t.status # COMPLETED)

\* every task stored in ts is stored in after, under the same id
NoneRemoved(ts, after) == \A i \in 1..Len(ts) : Has(after, ts[i].id)

\* C31: clear_completed_tasks deletes exactly the COMPLETED tasks and
\* leaves every other task, with all its fields, as it was and in its
\* place; no other operation removes a task.
C31_OnlyCleanupRemoves ==
    [][/\ last'.op = "clear_completed_tasks" =>
            /\ tasks' = Kept(tasks)
            /\ \A i \in 1..Len(tasks) :
                  IF tasks[i].status = COMPLETED THEN ~Has(tasks', tasks[i].id)
                  ELSE Has(tasks', tasks[i].id) /\ Get(tasks', tasks[i].id) = tasks[i]
       /\ last'.op # "clear_completed_tasks" => NoneRemoved(tasks, tasks')]_vars

\* a cleanup has just removed a task and left others, one of them FAILED
C31_Witness ==
    /\ last.op = "clear_completed_tasks"
    /\ 0 < Len(tasks)
    /\ Len(tasks) < task_counter
    /\ \E i \in 1..Len(tasks) : tasks[i].status = FAILED

----------------------------------------------------------------------------
(* Properties of a build, checked under SpecExec *)

\* the executor called start_task for the task at place j of the plan
StartAsked(j) == \E k \in 1..Len(log) : log[k].ev = "start_task" /\ log[k].id = plan[j]

\* C32: once a task of the plan is FAILED, whatever its priority, every
\* later task of the plan is PENDING and was never executed, and every
\* start_task the executor called for a later task was refused, the task
\* before it in the plan not being COMPLETED.
C32_NothingStartsAfterFailure ==
    \A i \in 1..Len(plan) :
        Get(tasks, plan[i]).status = FAILED =>
            \A j \in (i + 1)..Len(plan) :
                /\ Get(tasks, plan[j]).status = PENDING
                /\ ~Logged(j, "_execute_task")
                /\ Get(tasks, plan[j]).dependencies = <<plan[j - 1]>>
                /\ Get(tasks, plan[j - 1]).status # COMPLETED
                /\ \A k \in 1..Len(log) :
                      (log[k].ev = "start_task" /\ log[k].id = plan[j]) => ~log[k].ret

\* the run went on after a MEDIUM task failed and has returned: start_task
\* was called for every later task of the plan
C32_Witness ==
    /\ RunReturned
    /\ \E i \in 1..Len(plan) :
          /\ i < Len(plan)
          /\ Get(tasks, plan[i]).status = FAILED
          /\ Get(tasks, plan[i]).priority = MEDIUM
          /\ \A j \in (i + 1)..Len(plan) : StartAsked(j)

\* the tasks the executor started in this build: start_task returned True
Started == {log[k].id : k \in {n \in 1..Len(log) : log[n].ev = "start_task" /\ log[n].ret}}

\* C33: when build_application has returned, no stored task is IN_PROGRESS
\* and every task the executor started is COMPLETED or FAILED, also when a
\* handler or a capability raised.
C33_NoTaskLeftInProgress ==
    BuildCameBack =>
        /\ result # None
        /\ InProgress(tasks) = {}
        /\ \A id \in Started : Get(tasks, id).status \in Terminal

\* a build has returned in which a handler raised on a started task, after
\* another task was completed
C33_Witness ==
    /\ BuildCameBack
    /\ \E k \in 1..Len(log) :
          /\ log[k].ev = "_execute_task"
          /\ log[k].raised
          /\ log[k].id \in Started
          /\ Get(tasks, log[k].id).status = FAILED
    /\ \E id \in Started : Get(tasks, id).status = COMPLETED

\* what Deployer.prepare_deployment reported in the call of _execute_task
\* logged at place k: the success field of the dict it returned
DeployerReported(k) == log[k].value.value

\* C34 (as claimed): the Deployment task is COMPLETED only if the Deployer
\* reported success; when it reported success = false the task is settled
\* FAILED and the build reports failure.
C34_DeploymentFollowsDeployer ==
    \A k \in 1..Len(log) :
        (/\ log[k].ev = "_execute_task"
         /\ Category(Get(tasks, log[k].id).title) = "deployment"
         /\ pc # "settle") =>
            LET task == Get(tasks, log[k].id) IN
            /\ task.status = COMPLETED => DeployerReported(k)
            /\ ~DeployerReported(k) =>
                  /\ task.status = FAILED
                  /\ BuildCameBack => ~result[1].success

\* the stored tasks of the plan of the running (or last) build
OwnTasks == SelectSeq(tasks, LAMBDA t : t.id \in Range(plan))

\* C35 (as claimed): the success a build reports is decided by the tasks
\* of its own plan alone: it is what the same tasks give on an engine that
\* stores no task of an earlier build.
C35_SuccessFromOwnPlanOnly ==
    (RunReturned /\ plan # <<>>) =>
        execResult[1] = OverallSuccess(get_task_progress(OwnTasks))

----------------------------------------------------------------------------
(* Properties of the artifact map, checked under SpecArtifacts *)

ArtifactKeys == {"content", "language", "checksum", "last_updated"}

----------------------------------------------------------------------------
(* Properties of the cleanup and of the ids, checked under Spec *)

\* get_ready_tasks() returns the task with this id
ReturnedReady(ts, id) == \E k \in 1..Len(get_ready_tasks(ts)) : get_ready_tasks(ts)[k].id = id

\* C37 (as claimed): a PENDING task whose dependencies were all COMPLETED
\* before clear_completed_tasks is, after it, still returned by
\* get_ready_tasks and still accepted by start_task.
C37_CleanupKeepsReadiness ==
    [][last'.op = "clear_completed_tasks" =>
        \A i \in 1..Len(tasks) :
            Startable(tasks, tasks[i].id) =>
                /\ ReturnedReady(tasks', tasks[i].id)
                /\ start_task(tasks', tasks[i].id).ret]_vars

\* the ids the planner has handed out when its counter stands at counter
Issued(counter) == {TaskId(n) : n \in 0..(counter - 1)}

\* the ids a planner call returned
ReturnedIds(call) ==
    IF call.op = "create_task" THEN {call.ret}
    ELSE IF call.op = "plan_from_requirement" THEN Range(call.ret)
    ELSE {}

\* C38: the ids handed out so far are the ids some create_task returned;
\* no call takes an id out of them, clear_completed_tasks included, and
\* every id a call returns is none of them and is returned once by the call.
C38_IdsNeverReused ==
    [][/\ Issued(task_counter') = Issued(task_counter) \cup ReturnedIds(last')
       /\ ReturnedIds(last') \cap Issued(task_counter) = {}
       /\ last'.op = "plan_from_requirement" =>
              Cardinality(Range(last'.ret)) = Len(last'.ret)
       /\ \A i \in 1..Len(tasks') : tasks'[i].id \in Issued(task_counter')
       /\ \A i, j \in 1..Len(tasks') : tasks'[i].id = tasks'[j].id => i = j]_vars

\* create_task has returned an id after the first task handed out was cleared
C38_Witness ==
    /\ last.op = "create_task"
    /\ task_counter > 1
    /\ ~Has(tasks, TaskId(0))
    /\ Has(tasks, last.ret)

----------------------------------------------------------------------------
(* Properties of a retried operation that succeeds, checked under SpecRetry *)

\* the attempts on which the operation would return
Succeeding == {k \in 1..last.max_retries : ~last.outcomes[k].raised}

\* the first of them
FirstSuccess == CHOOSE j \in Succeeding : \A k \in Succeeding : j <= k

\* C39: with max_retries = N around an operation that first succeeds on
\* attempt j <= N, the operation is called exactly j times, j - 1 delays
\* are slept, the value of attempt j is returned and nothing is raised.
C39_FirstSuccessEndsRetries ==
    (Retried /\ Succeeding # {}) =>
        /\ last.ret.calls = FirstSuccess
        /\ Len(last.ret.delays) = FirstSuccess - 1
        /\ ~last.ret.raised
        /\ last.ret.value = last.outcomes[FirstSuccess].value

\* the operation succeeded on the third of four attempts, and would have
\* returned another value on the fourth
C39_Witness ==
    /\ Retried
    /\ last.max_retries = 4
    /\ Succeeding = {3, 4}
    /\ last.outcomes[3].value # last.outcomes[4].value
    /\ last.ret.calls = 3
    /\ last.ret.value = last.outcomes[3].value

\* C40: on a planner that stores a task, the counts of get_task_progress()
\* for completed, in_progress, failed and pending add up to total_tasks,
\* which is the number of stored tasks.
C40_CountsAddUp ==
    tasks # <<>> =>
        LET p == get_task_progress(tasks) IN
        /\ p.total_tasks = Len(tasks)
        /\ p.completed + p.in_progress + p.failed + p.pending = p.total_tasks

\* the planner stores tasks of all four counted statuses
C40_Witness ==
    /\ tasks # <<>>
    /\ get_task_progress(tasks).completed > 0
    /\ get_task_progress(tasks).failed > 0
    /\ get_task_progress(tasks).pending > 0
    /\ get_task_progress(tasks).in_progress > 0

====
